---- MODULE Spec2Model ----
(***************************************************************************)
(* Capture session of the recorder (recorder/recorder.rs) together with    *)
(* the progressive WAV writer it drives (recorder/wav_writer.rs).          *)
(*                                                                         *)
(* Three kinds of threads act on the state:                                *)
(*   - the caller thread, which runs the RecorderState methods one at a    *)
(*     time (commands.rs keeps the recorder behind one Mutex);             *)
(*   - the stream thread spawned by StreamHolder::new, one per session;    *)
(*   - the host's audio callback thread of a live stream, which runs the   *)
(*     closure given to build_input_stream.                                *)
(* Every init_session that reaches StreamHolder::new creates a new session *)
(* number s: its flag armed[s], its writer wav[s], its thread thread[s].   *)
(* Flag 0 is the flag created by RecorderState::new.                       *)
(***************************************************************************)
EXTENDS Integers, Sequences, FiniteSets, TLC

\* Bounds of the model.
MaxSessions == 2
MaxSamples == 3
MaxBuf == 2
MaxWrites == 3
MaxConfigs == 2
MaxRequests == 2

\* wav_writer.rs:29-30
bits_per_sample == 32
bytes_per_sample == bits_per_sample \div 8
\* wav_writer.rs:141
RIFF_OVERHEAD == 36
\* A u32 header field is kept as its two 16-bit halves, <<high, low>>.
HALF == 65536
\* A u64 size x is kept as <<x \div 2^16, x % 2^16>>, so that sizes of 2^32 bytes
\* and more can be computed.
u64(n) == <<n \div HALF, n % HALF>>
\* a * k for a small factor k (wav_writer.rs:140)
mul_u64(a, k) == LET p == a[2] * k IN <<a[1] * k + p \div HALF, p % HALF>>
\* k + a for a small term k (wav_writer.rs:141)
add_u64(k, a) == LET t == a[2] + k IN <<a[1] + t \div HALF, t % HALF>>
\* `x as u32` followed by to_le_bytes (wav_writer.rs:146, :151): the low 32 bits
as_u32(a) == <<a[1] % HALF, a[2]>>
\* wav_writer.rs:38 and :56, the four 0xFF placeholder bytes
PLACEHOLDER == <<HALF - 1, HALF - 1>>

Sessions == 1 .. MaxSessions
Flags == 0 .. MaxSessions
OutputFolders == {"rec"}
RecordingIds == {"a"}
\* The configurations get_optimal_config can hand back: (sample rate, channels).
Configs == {<<16000, 1>>, <<48000, 2>>}
\* How create_stream() ends in the stream thread: the stream built and playing,
\* the sample format sent to the "Unsupported sample format" arm of the match in
\* init_session, build_input_stream failing, or play failing.
CreateOutcomes == {"playing", "unsupported_format", "build_failed", "play_failed"}

None == <<>>

\* output_folder.join(format!("{}.wav", recording_id))
JoinPath(output_folder, recording_id) == <<output_folder, recording_id, "wav">>
Paths == {JoinPath(d, i) : d \in OutputFolders, i \in RecordingIds}

VARIABLES
  stream_holder,   \* RecorderState.stream_holder: 0 = None, s = Some(holder of session s)
  writer,          \* RecorderState.writer: 0 = None, s = Some(writer of session s)
  is_recording,    \* which flag RecorderState.is_recording points at
  sample_rate,     \* RecorderState.sample_rate
  channels,        \* RecorderState.channels
  file_path,       \* RecorderState.file_path: None or a path
  armed,           \* the value of each AtomicBool flag
  should_stop,     \* StreamHolder.should_stop of each session
  thread,          \* position of each session's stream thread
  cb,              \* position of each stream's audio callback
  wav,             \* each session's WavWriter and the file it created
  fs,              \* directory: path -> session whose file the entry names, 0 = no entry
  pc,              \* position of the caller thread
  op,              \* the method the caller thread is in
  joining,         \* holder taken by close_session, being joined
  args,            \* locals of the method in progress: init_session's arguments,
                   \* cancel_recording's remove_file result
  next_session,    \* number the next session gets
  ret              \* what the last completed method returned

\* A WavWriter driven directly through its public methods.
VARIABLES
  wav_writer,      \* the WavWriter and the file it created
  wav_calls        \* the calls made on it: samples handed to write calls so far,
                   \* the last method called and whether it returned Ok

\* A function of the repository evaluated on its own.
VARIABLES
  call,            \* the function called and its arguments
  returned         \* None until it returns, then what it returned

\* The audio manager (recorder/audio_manager.rs), its worker thread and callers.
VARIABLES
  device_cache,      \* AudioManagerWorker.device_cache: name -> DeviceInfo, if cached
  last_full_refresh, \* AudioManagerWorker.last_full_refresh; an Instant is kept as
                     \* the seconds elapsed since it, which is all the code reads
  receiver,          \* the commands sent to the worker and not yet received
  response,          \* the response channel of the call in progress
  waiting,           \* the caller inside AudioManager::enumerate_devices / get_device
  manager_ret,       \* what the last call of an AudioManager method returned
  next_request,      \* number the next command gets
  probes,            \* result of the last default_input_config() probe of each device
  worker_did,        \* the worker's last loop iteration: command, host calls, reply
  host_queried_by    \* the thread that made the most recent host query

\* A transcription command (transcription/mod.rs, whisper_cpp/mod.rs).
VARIABLES
  audio_data,        \* the bytes the command was called with
  transcription      \* the command in progress: position, tiers run, locals, result

\* A WavWriter and the bytes of its file (recorder/wav_writer.rs).
VARIABLES
  recording,         \* the WavWriter's fields, the file as 4-byte words, the write position
  file_calls         \* the last call made on it, its input and what it did to the header

\* The ModelManager (transcription/model_manager.rs) and the commands using it.
VARIABLES
  engine,             \* ModelManager.engine: the shared slot, empty or one engine
  current_model_path, \* ModelManager.current_model_path
  last_activity,      \* ModelManager.last_activity, kept as the seconds elapsed since it
  commands,           \* each transcription command: position, arguments, result
  unloader,           \* a caller of unload_if_idle: whether it has read an expired time
  model_manager_did   \* the last ModelManager call: name, kind, path, whether it loaded

recorder_vars == <<stream_holder, writer, is_recording, sample_rate, channels, file_path,
                   armed, should_stop, thread, cb, wav, fs, pc, op, joining, args,
                   next_session, ret>>
writer_vars == <<wav_writer, wav_calls>>
function_vars == <<call, returned>>
manager_vars == <<device_cache, last_full_refresh, receiver, response, waiting,
                  manager_ret, next_request, probes, worker_did, host_queried_by>>

transcription_vars == <<audio_data, transcription>>
file_vars == <<recording, file_calls>>
engine_vars == <<engine, current_model_path, last_activity, commands, unloader,
                 model_manager_did>>

vars == <<recorder_vars, writer_vars, function_vars, manager_vars, transcription_vars, file_vars, engine_vars>>

recorder_fields == <<stream_holder, writer, is_recording, sample_rate, channels, file_path>>

----------------------------------------------------------------------------
\* WavWriter

NoWriter == [open |-> FALSE, sample_rate |-> 0, channels |-> 0, samples_written |-> 0,
             riff_size |-> as_u32(u64(0)), data_size |-> as_u32(u64(0)), payload |-> 0,
             file_path |-> None]

\* WavWriter::new: the header with both size fields at the placeholder, no payload.
NewWavWriter(path, rate, ch) ==
  [open |-> TRUE, sample_rate |-> rate, channels |-> ch, samples_written |-> 0,
   riff_size |-> PLACEHOLDER, data_size |-> PLACEHOLDER, payload |-> 0, file_path |-> path]

\* What the I/O inside update_headers can do: succeed; fail before the RIFF size
\* reached the file (stream_position, or the flush inside the first or second
\* seek); or fail after the RIFF size reached the file and before the data size
\* did (the flush inside the last seek).
IoOutcomes == {"ok", "failed", "failed_after_riff"}

\* update_headers storing u32::MAX for a size that does not fit the field.
update_headers_saturating(w, io) ==
  LET data_size == mul_u64(u64(w.samples_written), bytes_per_sample)
      file_size == add_u64(RIFF_OVERHEAD, data_size)
      saturated(a) == IF a[1] >= HALF THEN <<HALF - 1, HALF - 1>> ELSE a
  IN  CASE io = "ok" ->
             [w EXCEPT !.riff_size = saturated(file_size), !.data_size = saturated(data_size)]
        [] io = "failed_after_riff" ->
             [w EXCEPT !.riff_size = saturated(file_size)]
        [] OTHER -> w

\* WavWriter::update_headers
update_headers(w, io) ==
  LET data_size == mul_u64(u64(w.samples_written), bytes_per_sample)
      file_size == add_u64(RIFF_OVERHEAD, data_size)
  IN  CASE io = "ok" ->
             [w EXCEPT !.riff_size = as_u32(file_size), !.data_size = as_u32(data_size)]
        [] io = "failed_after_riff" ->
             [w EXCEPT !.riff_size = as_u32(file_size)]
        [] OTHER -> w

\* finalize that pads the data chunk with one more value.
finalize_padding(w, io) == [update_headers(w, io) EXCEPT !.payload = @ + 1]

\* WavWriter::finalize
finalize(w, io) == update_headers(w, io)

\* get_duration_seconds dividing by the sample rate alone.
get_duration_seconds_per_rate(w) == [num |-> w.samples_written, den |-> w.sample_rate]

\* WavWriter::get_duration_seconds: the quotient, kept as numerator and denominator.
get_duration_seconds(w) == [num |-> w.samples_written, den |-> w.sample_rate * w.channels]

\* WavWriter::get_metadata
get_metadata(w) == <<w.sample_rate, w.channels, get_duration_seconds(w)>>

\* write_samples advancing the counter once per call.
write_samples_counting_calls(w, n, elapsed, io) ==
  LET w1 == [w EXCEPT !.payload = @ + n, !.samples_written = @ + 1]
  IN  IF elapsed THEN update_headers(w1, io) ELSE w1

\* WavWriter::write_samples_f32 / _i16 / _u16: n samples appended, each as one
\* 4-byte float (payload counts the floats in the file), the counter advanced, and
\* the header rewritten when a second has elapsed.
write_samples(w, n, elapsed, io) ==
  LET w1 == [w EXCEPT !.payload = @ + n, !.samples_written = @ + n]
  IN  IF elapsed THEN update_headers(w1, io) ELSE w1

\* Drop for WavWriter: finalize, errors logged; the struct is freed and the file
\* closed. What stays is the file's content while a directory entry still names
\* it (linked); the content of a removed file goes with its last handle.
drop_writer(w, io, linked) ==
  IF linked
  THEN [finalize(w, io) EXCEPT !.open = FALSE, !.sample_rate = 0, !.channels = 0,
                               !.samples_written = 0, !.file_path = None]
  ELSE NoWriter

----------------------------------------------------------------------------
ZeroDuration == [num |-> 0, den |-> 1]

NoRet == [op |-> "none", ok |-> TRUE, err |-> "", sample_rate |-> 0, channels |-> 0,
          duration |-> ZeroDuration, file_path |-> None]

Ok(name) == [NoRet EXCEPT !.op = name]
Err(name, message) == [NoRet EXCEPT !.op = name, !.ok = FALSE, !.err = message]

\* No WavWriter has been created outside a session.
WriterAtRest ==
  /\ wav_writer = NoWriter
  /\ wav_calls = [written |-> 0, writes |-> 0, last |-> "none", ok |-> TRUE,
                  prev |-> "none", prev_ok |-> TRUE]

\* No function is being evaluated.
FunctionAtRest ==
  /\ call = None
  /\ returned = None

\* No WavWriter whose file is followed byte by byte.
FileAtRest ==
  /\ recording = [open |-> FALSE]
  /\ file_calls = [last |-> "none"]

\* No ModelManager in use.
EngineAtRest ==
  /\ engine = [is_some |-> FALSE]
  /\ current_model_path = [is_some |-> FALSE]
  /\ last_activity = "none"
  /\ commands = <<>>
  /\ unloader = "none"
  /\ model_manager_did = [call |-> "none"]

\* No transcription command has been called.
TranscriptionAtRest ==
  /\ audio_data = [container |-> "none"]
  /\ transcription = [pc |-> "none"]

\* Device names, in the order of String::cmp.
DeviceNames == {"mic", "usb"}

\* DeviceInfo of a name the cache does not hold.
NotCached == [cached |-> FALSE, is_available |-> FALSE, last_checked |-> 0]
NoReply == [ok |-> TRUE, err |-> "", value |-> <<>>]
NoIteration == [id |-> 0, cmd |-> "none", host_calls |-> <<>>, available_first |-> {},
                reply |-> NoReply]

\* AudioManager::new and AudioManagerWorker::new: the worker thread is started
\* with an empty cache and no scan made; no call is in progress.
ManagerInit ==
  /\ device_cache = [d \in DeviceNames |-> NotCached]
  /\ last_full_refresh = [is_some |-> FALSE, elapsed |-> 0]
  /\ receiver = <<>>
  /\ response = [for |-> 0, msgs |-> <<>>]
  /\ waiting = [id |-> 0, cmd |-> "none", waited |-> 0]
  /\ manager_ret = [id |-> 0, result |-> NoReply]
  /\ next_request = 1
  /\ probes = [d \in DeviceNames |-> "none"]
  /\ worker_did = NoIteration
  /\ host_queried_by = "none"

\* RecorderState::new
RecorderInit ==
  /\ stream_holder = 0
  /\ writer = 0
  /\ is_recording = 0
  /\ sample_rate = 0
  /\ channels = 0
  /\ file_path = None
  /\ armed = [f \in Flags |-> FALSE]
  /\ should_stop = [s \in Sessions |-> FALSE]
  /\ thread = [s \in Sessions |-> "unborn"]
  /\ cb = [s \in Sessions |-> "idle"]
  /\ wav = [s \in Sessions |-> NoWriter]
  /\ fs = [p \in Paths |-> 0]
  /\ pc = "ready"
  /\ op = "none"
  /\ joining = 0
  /\ args = None
  /\ next_session = 1
  /\ ret = NoRet

Init ==
  /\ RecorderInit
  /\ WriterAtRest
  /\ FunctionAtRest
  /\ ManagerInit
  /\ FileAtRest
  /\ EngineAtRest
  /\ TranscriptionAtRest

----------------------------------------------------------------------------
\* The stream thread and the audio callback

\* The directory entry of the path session s created its file at still names that file.
Linked(s) == wav[s].file_path # None /\ fs[wav[s].file_path] = s

\* A stream thread exists from thread::spawn until its closure returns.
ThreadAlive(s) == s # 0 /\ thread[s] \in {"creating", "parked"}

\* The closure given to StreamHolder::new owns a clone of the writer's Arc until
\* create_stream fails or the stream that captured it is dropped.
ClosureHoldsWriter(s) == ThreadAlive(s)

\* create_stream() called before thread::spawn, the stream moved into the thread.
thread_spawn_with_stream(s) == [thread EXCEPT ![s] = "parked"]

\* StreamHolder::new, thread::spawn(move || ...): the thread exists and has not
\* yet run; the closure create_stream has been moved into it.
thread_spawn(s) == [thread EXCEPT ![s] = "creating"]

\* StreamHolder::new, thread body, first half: create_stream() runs in the new
\* thread; on Err the thread logs and returns, on Ok the stream is live and playing.
thread_create_stream(s) ==
  /\ thread[s] = "creating"
  /\ \E outcome \in CreateOutcomes :
       thread' = [thread EXCEPT ![s] = IF outcome = "playing" THEN "parked" ELSE "failed"]
  /\ UNCHANGED <<recorder_fields, armed, should_stop, cb, wav, fs, pc, op,
                 joining, args, next_session, ret>>

\* The polling loop with its condition inverted: the thread leaves only while
\* should_stop is false.
thread_exit_inverted(s) ==
  /\ thread[s] = "parked"
  /\ ~should_stop[s]
  /\ cb[s] = "idle"
  /\ thread' = [thread EXCEPT ![s] = "stopped"]
  /\ UNCHANGED <<recorder_fields, armed, should_stop, cb, wav, fs, pc, op,
                 joining, args, next_session, ret>>

\* StreamHolder::new, thread body, second half: the polling loop sees should_stop
\* and drop(stream) runs; dropping a stream returns once its callback is not
\* running, and no callback runs afterwards. The closure's Arc goes with it.
thread_exit(s) ==
  /\ thread[s] = "parked"
  /\ should_stop[s]
  /\ cb[s] = "idle"
  /\ thread' = [thread EXCEPT ![s] = "stopped"]
  /\ \E io \in IoOutcomes :
       wav' = IF writer # s /\ wav[s].open
              THEN [wav EXCEPT ![s] = drop_writer(@, io, Linked(s))]
              ELSE wav
  /\ UNCHANGED <<recorder_fields, armed, should_stop, cb, fs, pc, op,
                 joining, args, next_session, ret>>

\* The data callback of build_stream_f32 / _i16 / _u16, first step:
\* is_recording.load(Acquire). A callback that reads false returns at once.
callback_load(s) ==
  /\ thread[s] = "parked"
  /\ cb[s] = "idle"
  /\ wav[s].samples_written + MaxBuf <= MaxSamples
  /\ cb' = [cb EXCEPT ![s] = IF armed[s] THEN "observed_armed" ELSE "idle"]
  /\ UNCHANGED <<recorder_fields, armed, should_stop, thread, wav, fs, pc, op,
                 joining, args, next_session, ret>>

\* The data callback, second step: writer.lock() and write_samples_*(data), the
\* result dropped by `let _`.
callback_write(s, n) ==
  /\ cb[s] = "observed_armed"
  /\ \E elapsed \in BOOLEAN, io \in IoOutcomes :
       wav' = [wav EXCEPT ![s] = write_samples(@, n, elapsed, io)]
  /\ cb' = [cb EXCEPT ![s] = "idle"]
  /\ UNCHANGED <<recorder_fields, armed, should_stop, thread, fs, pc, op,
                 joining, args, next_session, ret>>

----------------------------------------------------------------------------
\* RecorderState

\* close_session up to the join: the flag cleared, the holder taken, and
\* StreamHolder::stop sets both flags and blocks in thread.join().
close_begin(caller) ==
  /\ armed' = [f \in Flags |->
                 IF f = is_recording \/ (stream_holder # 0 /\ f = stream_holder)
                 THEN FALSE ELSE armed[f]]
  /\ should_stop' = [s \in Sessions |-> IF s = stream_holder THEN TRUE ELSE should_stop[s]]
  /\ joining' = stream_holder
  /\ stream_holder' = 0
  /\ pc' = "close_join"
  /\ op' = caller

\* RecorderState::close_session, called by the command layer.
close_session ==
  /\ pc = "ready"
  /\ close_begin("close_session")
  /\ UNCHANGED <<writer, is_recording, sample_rate, channels, file_path, thread,
                 cb, wav, fs, args, next_session, ret>>

\* Drop for RecorderState
drop_recorder ==
  /\ pc = "ready"
  /\ close_begin("drop")
  /\ UNCHANGED <<writer, is_recording, sample_rate, channels, file_path, thread,
                 cb, wav, fs, args, next_session, ret>>

\* StreamHolder::stop not waiting for the thread.
thread_join_detached(s) == TRUE

\* thread.join() in StreamHolder::stop returns once the thread has finished.
thread_join(s) == ~ThreadAlive(s)

\* "Clear state" that forgets the rate and the channels.
clear_state_path_only ==
  /\ file_path' = None
  /\ UNCHANGED <<sample_rate, channels>>

\* close_session, "Clear state"
clear_state ==
  /\ file_path' = None
  /\ sample_rate' = 0
  /\ channels' = 0

\* close_session from the return of thread.join(): the writer is taken, finalized
\* with the error ignored, and dropped (Drop finalizes once more when this was the
\* last Arc); path, rate and channels are cleared; control returns to the caller.
close_session_join ==
  /\ pc = "close_join"
  /\ thread_join(joining)
  /\ joining' = 0
  /\ \E io1 \in IoOutcomes, io2 \in IoOutcomes :
       wav' = IF writer = 0 THEN wav
              ELSE [wav EXCEPT ![writer] =
                      IF ClosureHoldsWriter(writer) THEN finalize(@, io1)
                      ELSE drop_writer(finalize(@, io1), io2, Linked(writer))]
  /\ writer' = 0
  /\ clear_state
  /\ CASE op = "init_session" ->
            pc' = "init_body" /\ UNCHANGED <<op, ret>>
       [] op = "drop" ->
            pc' = "dropped" /\ UNCHANGED <<op, ret>>
       [] OTHER ->
            pc' = "ready" /\ op' = "none" /\ ret' = Ok(op)
  /\ thread' = [s \in Sessions |->
                  IF s = joining /\ ~ThreadAlive(s) THEN "joined" ELSE thread[s]]
  /\ args' = IF op = "init_session" THEN args ELSE None
  /\ UNCHANGED <<stream_holder, is_recording, armed, should_stop, cb, fs, next_session>>

\* init_session without the initial close_session.
init_session_without_close(output_folder, recording_id) ==
  /\ pc = "ready"
  /\ next_session <= MaxSessions
  /\ args' = <<output_folder, recording_id>>
  /\ pc' = "init_body"
  /\ op' = "init_session"
  /\ UNCHANGED <<recorder_fields, armed, should_stop, thread, cb, wav, fs, joining,
                 next_session, ret>>

\* RecorderState::init_session, entry: "Clean up any existing session".
init_session(output_folder, recording_id) ==
  /\ pc = "ready"
  /\ next_session <= MaxSessions
  /\ args' = <<output_folder, recording_id>>
  /\ close_begin("init_session")
  /\ UNCHANGED <<writer, is_recording, sample_rate, channels, file_path, thread,
                 cb, wav, fs, next_session, ret>>

\* RecorderState::init_session after close_session returned: find_device,
\* get_optimal_config, WavWriter::new, the fresh flag, StreamHolder::new (which
\* spawns the thread and returns Ok), and the stores.
init_session_body ==
  /\ pc = "init_body"
  /\ pc' = "ready"
  /\ op' = "none"
  /\ args' = None
  /\ \/ /\ \E e \in {"Device not found", "No supported input configurations",
                     "Failed to create WAV file"} :
               ret' = Err("init_session", e)
        /\ UNCHANGED <<recorder_fields, armed, should_stop, thread, wav, fs,
                       next_session>>
     \/ \E config \in Configs :
          LET s == next_session
              path == JoinPath(args[1], args[2])
          IN  /\ wav' = [x \in Sessions |->
                          IF x = s THEN NewWavWriter(path, config[1], config[2])
                          ELSE IF x = fs[path] /\ ~wav[x].open THEN NoWriter
                          ELSE wav[x]]
              /\ fs' = [fs EXCEPT ![path] = s]
              /\ is_recording' = s
              /\ armed' = [armed EXCEPT ![s] = FALSE]
              /\ should_stop' = [should_stop EXCEPT ![s] = FALSE]
              /\ thread' = thread_spawn(s)
              /\ stream_holder' = s
              /\ writer' = s
              /\ sample_rate' = config[1]
              /\ channels' = config[2]
              /\ file_path' = path
              /\ next_session' = s + 1
              /\ ret' = Ok("init_session")
  /\ UNCHANGED <<cb, joining>>

\* start_recording without the stream_holder check.
start_recording_unchecked ==
  /\ pc = "ready"
  /\ armed' = [armed EXCEPT ![is_recording] = TRUE]
  /\ ret' = Ok("start_recording")
  /\ UNCHANGED <<recorder_fields, should_stop, thread, cb, wav, fs, pc, op,
                 joining, args, next_session>>

\* RecorderState::start_recording
start_recording ==
  /\ pc = "ready"
  /\ IF stream_holder = 0
     THEN /\ ret' = Err("start_recording", "No recording session initialized")
          /\ UNCHANGED armed
     ELSE /\ armed' = [armed EXCEPT ![is_recording] = TRUE]
          /\ ret' = Ok("start_recording")
  /\ UNCHANGED <<recorder_fields, should_stop, thread, cb, wav, fs, pc, op,
                 joining, args, next_session>>

\* stop_recording that also gives up the stream holder and the writer.
stop_recording_closing ==
  /\ pc = "ready"
  /\ armed' = [armed EXCEPT ![is_recording] = FALSE]
  /\ stream_holder' = 0
  /\ writer' = 0
  /\ ret' = [Ok("stop_recording") EXCEPT
               !.sample_rate = sample_rate, !.channels = channels, !.file_path = file_path]
  /\ UNCHANGED <<is_recording, sample_rate, channels, file_path, should_stop, thread,
                 cb, wav, fs, pc, op, joining, args, next_session>>

\* RecorderState::stop_recording
stop_recording ==
  /\ pc = "ready"
  /\ armed' = [armed EXCEPT ![is_recording] = FALSE]
  /\ IF writer # 0
     THEN \E io \in IoOutcomes :
            LET w == finalize(wav[writer], io)
                m == get_metadata(w)
            IN  /\ wav' = [wav EXCEPT ![writer] = w]
                /\ ret' = IF io = "ok"
                          THEN [Ok("stop_recording") EXCEPT
                                  !.sample_rate = m[1], !.channels = m[2],
                                  !.duration = m[3], !.file_path = file_path]
                          ELSE Err("stop_recording", "Failed to finalize WAV")
     ELSE /\ ret' = [Ok("stop_recording") EXCEPT
                       !.sample_rate = sample_rate, !.channels = channels,
                       !.duration = ZeroDuration, !.file_path = file_path]
          /\ UNCHANGED wav
  /\ UNCHANGED <<recorder_fields, should_stop, thread, cb, fs, pc, op,
                 joining, args, next_session>>

\* remove_file that never removes.
remove_file_never(dir, path, result) == dir

\* std::fs::remove_file(path): the entry is removed and Ok returned, or the call
\* fails and the directory is as it was.
remove_file(dir, path, result) ==
  IF result = "removed" THEN [dir EXCEPT ![path] = 0] ELSE dir

\* RecorderState::cancel_recording up to the join inside close_session.
cancel_recording ==
  /\ pc = "ready"
  /\ IF file_path # None
     THEN \E result \in {"removed", "failed"} :
            /\ fs' = remove_file(fs, file_path, result)
            /\ args' = <<result>>
     ELSE UNCHANGED <<fs, args>>
  /\ close_begin("cancel_recording")
  /\ UNCHANGED <<writer, is_recording, sample_rate, channels, file_path, thread,
                 cb, wav, next_session, ret>>

----------------------------------------------------------------------------
\* What a step of the capture session leaves alone.
outside_recorder == <<writer_vars, function_vars, manager_vars, transcription_vars, file_vars, engine_vars>>

Next ==
  \/ (\E d \in OutputFolders, i \in RecordingIds : init_session(d, i))
       /\ UNCHANGED outside_recorder
  \/ init_session_body /\ UNCHANGED outside_recorder
  \/ start_recording /\ UNCHANGED outside_recorder
  \/ stop_recording /\ UNCHANGED outside_recorder
  \/ cancel_recording /\ UNCHANGED outside_recorder
  \/ close_session /\ UNCHANGED outside_recorder
  \/ close_session_join /\ UNCHANGED outside_recorder
  \/ drop_recorder /\ UNCHANGED outside_recorder
  \/ (\E s \in Sessions : thread_create_stream(s)) /\ UNCHANGED outside_recorder
  \/ (\E s \in Sessions : thread_exit(s)) /\ UNCHANGED outside_recorder
  \/ (\E s \in Sessions : callback_load(s)) /\ UNCHANGED outside_recorder
  \/ (\E s \in Sessions, n \in 1 .. MaxBuf : callback_write(s, n))
       /\ UNCHANGED outside_recorder

Spec == Init /\ [][Next]_vars

\* Scheduling: a spawned stream thread runs, a callback that has started
\* finishes, and a caller blocked in join continues once the thread has finished.
Fairness ==
  /\ WF_vars((\E s \in Sessions : thread_create_stream(s)) /\ UNCHANGED outside_recorder)
  /\ WF_vars((\E s \in Sessions : thread_exit(s)) /\ UNCHANGED outside_recorder)
  /\ WF_vars((\E s \in Sessions, n \in 1 .. MaxBuf : callback_write(s, n))
               /\ UNCHANGED outside_recorder)
  /\ WF_vars(close_session_join /\ UNCHANGED outside_recorder)

FairSpec == Spec /\ Fairness

----------------------------------------------------------------------------
\* States of the capture session (spec 4.3)
Idle == stream_holder = 0
Initialized == stream_holder # 0 /\ ~armed[is_recording]
Recording == stream_holder # 0 /\ armed[is_recording]

\* Everything but the caller's position and its last result.
session_state == <<recorder_fields, armed, should_stop, thread, cb, wav, fs, next_session>>

----------------------------------------------------------------------------
\* C1: while the recorder holds a session whose armed flag is false (from the
\* return of init_session until the first start_recording, and after a
\* stop_recording returned until the next start), the writer's sample counter
\* and the file payload do not grow.
C1_NoGrowthWhileDisarmed ==
  [][\A s \in Sessions :
       (stream_holder = s /\ pc = "ready" /\ pc' = "ready" /\ ~armed[s] /\ ~armed'[s])
         => /\ wav'[s].samples_written = wav[s].samples_written
            /\ wav'[s].payload = wav[s].payload]_vars

\* C2: start_recording without a session returns an error and changes nothing;
\* with a session it sets the armed flag and returns Ok, however often it is
\* called; after close_session or cancel_recording returned there is no session.
C2_StartRecording ==
  [][/\ (start_recording /\ stream_holder = 0)
          => /\ ret'.op = "start_recording" /\ ~ret'.ok
             /\ UNCHANGED <<session_state, pc, op, joining, args>>
     /\ (start_recording /\ stream_holder # 0)
          => /\ ret' = Ok("start_recording")
             /\ armed'[is_recording]
             /\ UNCHANGED <<recorder_fields, should_stop, thread, cb, wav, fs>>
     /\ (pc' = "ready" /\ ret'.op \in {"close_session", "cancel_recording"}
           /\ (pc = "close_join" \/ ret' = ret))
          => stream_holder' = 0]_vars

\* start_recording has just failed on a recorder whose session was torn down.
C2_Witness ==
  /\ ret.op = "start_recording"
  /\ ~ret.ok
  /\ next_session > 1
  /\ \E s \in Sessions : thread[s] = "joined"

\* C3 as stated: stop_recording on an initialized session always finalizes the
\* writer and returns the metadata.
C3_StopAlwaysReturnsMetadata ==
  [][(stop_recording /\ stream_holder # 0 /\ writer # 0)
       => /\ ret'.ok
          /\ ret'.duration = [num |-> wav[writer].samples_written,
                              den |-> sample_rate * channels]]_vars

\* C3 amended: stop_recording on an initialized session clears the armed flag and
\* runs finalize; when finalize succeeds the header sizes are those of the counter
\* and the result is the session's rate, channels, path and
\* samples_written / (rate * channels); when finalize fails the result is an error.
\* The path of a session is <output_dir>/<recording_id>.wav.
C3_StopRecording ==
  [][/\ (stop_recording /\ stream_holder # 0 /\ writer # 0)
          => /\ ~armed'[is_recording]
             /\ ret'.op = "stop_recording"
             /\ IF ret'.ok
                THEN /\ wav'[writer].data_size =
                          as_u32(u64(wav[writer].samples_written * bytes_per_sample))
                     /\ wav'[writer].riff_size =
                          as_u32(u64(RIFF_OVERHEAD
                                       + wav[writer].samples_written * bytes_per_sample))
                     /\ wav'[writer].samples_written = wav[writer].samples_written
                     /\ ret'.sample_rate = sample_rate
                     /\ ret'.channels = channels
                     /\ ret'.file_path = file_path
                     /\ ret'.duration = [num |-> wav[writer].samples_written,
                                         den |-> sample_rate * channels]
                ELSE /\ ret'.err = "Failed to finalize WAV"
                     /\ wav'[writer].data_size = wav[writer].data_size
                     /\ wav'[writer].samples_written = wav[writer].samples_written
     /\ (init_session_body /\ ret'.ok)
          => /\ file_path' = <<args[1], args[2], "wav">>
             /\ wav'[writer'].sample_rate = sample_rate'
             /\ wav'[writer'].channels = channels'
             /\ <<sample_rate', channels'>> \in Configs]_vars

\* stop_recording has returned the metadata of a two-channel session with samples.
C3_Witness ==
  /\ ret.op = "stop_recording"
  /\ ret.ok
  /\ ret.duration.num > 0
  /\ ret.channels = 2
  /\ ret.file_path \in Paths

----------------------------------------------------------------------------
\* No session state is left in the recorder.
IdleFields ==
  /\ stream_holder = 0
  /\ writer = 0
  /\ ~armed[is_recording]
  /\ file_path = None
  /\ sample_rate = 0
  /\ channels = 0

NoThreadNoWriter == \A s \in Sessions : ~ThreadAlive(s) /\ ~wav[s].open

\* C4 as stated: stop_recording on a Recording session leaves no stream handle
\* and no writer.
C4_StopReturnsToIdle ==
  [][(stop_recording /\ Recording) => (stream_holder' = 0 /\ writer' = 0)]_vars

\* C4 amended: the session goes Idle -> Initialized (init_session) -> Recording
\* (start_recording) -> Initialized (stop_recording); stop_recording keeps the
\* stream handle and the writer, so a start_recording that follows it succeeds;
\* a session is left for Idle only through the teardown of close_session
\* (close_session, cancel_recording, init_session, drop).
C4_SessionStates ==
  [][/\ (stop_recording /\ Recording)
          => /\ Initialized'
             /\ stream_holder' = stream_holder
             /\ writer' = writer /\ writer' # 0
     /\ (start_recording /\ ret.op = "stop_recording" /\ stream_holder # 0)
          => (ret'.ok /\ Recording')
     /\ (Idle /\ ~Idle') => (Initialized' /\ pc = "init_body" /\ ret'.ok)
     /\ (Initialized /\ Recording') => ret' = Ok("start_recording")
     /\ (Recording /\ Initialized') => ret'.op = "stop_recording"
     /\ (~Idle /\ Idle') => pc' = "close_join"]_vars

\* stop_recording has returned on a session that recorded samples, and the
\* stream handle, the live stream and the writer are still there.
C4_Witness ==
  /\ ret.op = "stop_recording"
  /\ pc = "ready"
  /\ stream_holder # 0
  /\ thread[stream_holder] = "parked"
  /\ writer # 0
  /\ wav[writer].open
  /\ wav[writer].samples_written > 0

\* C5 as stated: after cancel_recording on a session with samples the output file
\* does not exist and no session state remains.
C5_CancelRemovesFile ==
  [][(close_session_join /\ op = "cancel_recording" /\ writer # 0
        /\ wav[writer].samples_written > 0)
       => (fs'[file_path] = 0 /\ IdleFields' /\ NoThreadNoWriter')]_vars

\* C5 amended: cancel_recording returns Ok with no session state left; when
\* remove_file succeeded the file does not exist afterwards (teardown's finalize
\* writes to the open handle and does not re-create it); when remove_file failed
\* the error is ignored and the file stays.
C5_CancelRecording ==
  [][/\ (close_session_join /\ op = "cancel_recording")
          => /\ ret' = Ok("cancel_recording")
             /\ IdleFields'
             /\ NoThreadNoWriter'
             /\ file_path # None
                  => IF args = <<"removed">>
                     THEN fs'[file_path] = 0
                     ELSE fs'[file_path] = writer /\ fs[file_path] = writer
     /\ (pc = "close_join" /\ op = "cancel_recording" /\ file_path # None
           /\ args = <<"removed">>)
          => fs[file_path] = 0 /\ fs'[file_path] = 0]_vars

\* cancel_recording has removed the file of a session that recorded samples, the
\* stream thread has stopped, and the teardown is about to finalize the writer.
C5_Witness ==
  /\ pc = "close_join"
  /\ op = "cancel_recording"
  /\ args = <<"removed">>
  /\ writer # 0
  /\ wav[writer].samples_written > 0
  /\ thread[joining] = "stopped"

\* C6: close_session returns Ok and leaves no stream holder, no writer, the flag
\* false, no path, rate and channels 0; called on a recorder in that state it
\* changes nothing.
C6_CloseIdempotent ==
  [][/\ (close_session_join /\ op = "close_session")
          => (ret' = Ok("close_session") /\ IdleFields')
     /\ (close_session /\ IdleFields) => UNCHANGED session_state
     /\ (close_session_join /\ op = "close_session" /\ IdleFields)
          => UNCHANGED session_state]_vars

\* A second close_session is running right after a close_session that tore a
\* session down.
C6_Witness ==
  /\ pc = "close_join"
  /\ op = "close_session"
  /\ ret.op = "close_session"
  /\ IdleFields
  /\ \E s \in Sessions : thread[s] = "joined"

\* C7: at most one stream thread and at most one open writer exist, and when
\* init_session goes on to resolve the device the previous thread has been
\* joined and the previous writer closed.
C7_OneSession ==
  /\ Cardinality({s \in Sessions : ThreadAlive(s)}) <= 1
  /\ Cardinality({s \in Sessions : wav[s].open}) <= 1
  /\ pc = "init_body" => NoThreadNoWriter

\* init_session on a recorder that had a session has torn it down and is about
\* to resolve the device.
C7_Witness ==
  /\ pc = "init_body"
  /\ \E s \in Sessions : thread[s] = "joined" /\ wav[s].payload > 0

\* The holder of session s has been taken and its join has returned.
Closed(s) == thread[s] # "unborn" /\ stream_holder # s /\ joining # s

\* C8: once the teardown of a session has returned, its stream thread is gone, no
\* callback of its stream is running or starts, its writer is closed and the
\* sample counter does not change.
C8_CloseSynchronous ==
  [][\A s \in Sessions :
       Closed(s) => /\ ~ThreadAlive(s)
                    /\ cb[s] = "idle" /\ cb'[s] = "idle"
                    /\ ~wav[s].open
                    /\ wav'[s].samples_written = wav[s].samples_written]_vars

\* close_session has returned on a session whose callbacks had written samples.
C8_Witness ==
  /\ pc = "ready"
  /\ ret.op = "close_session"
  /\ \E s \in Sessions : Closed(s) /\ wav[s].payload > 0 /\ ~wav[s].open

\* C9: a stream whose construction failed in the stream thread never leaves the
\* recorder holding a session on which start_recording succeeds.
C9_FailurePropagated ==
  \A s \in Sessions : (pc = "ready" /\ stream_holder = s) => thread[s] # "failed"

\* C10: every teardown that has begun completes, and close_session and
\* cancel_recording then return Ok.
C10_TeardownCompletes ==
  /\ (pc = "close_join") ~> (pc # "close_join")
  /\ [][(close_session_join /\ op \in {"close_session", "cancel_recording"})
          => ret' = Ok(op)]_vars

\* close_session has returned Ok although both finalize calls failed: the file of
\* the closed session has samples and still carries the placeholder sizes.
C10_Witness ==
  /\ pc = "ready"
  /\ ret = Ok("close_session")
  /\ \E s \in Sessions : /\ thread[s] = "joined"
                         /\ wav[s].payload > 0
                         /\ wav[s].data_size = PLACEHOLDER

----------------------------------------------------------------------------
\* WavWriter on its own: created by WavWriter::new, written to through its three
\* write methods in any order and split, finalized any number of times, dropped.

\* 2^30 - 12 samples: the header then counts 12 bytes less than 4 GiB.
LargeSlice == HALF * (HALF \div 4) - 12
\* Lengths of the slices handed to one write call.
SliceLengths == {1, 2, LargeSlice}

\* WavWriter::new
WriterInit ==
  /\ RecorderInit
  /\ FunctionAtRest
  /\ ManagerInit
  /\ FileAtRest
  /\ EngineAtRest
  /\ TranscriptionAtRest
  /\ \E path \in Paths, config \in Configs :
       wav_writer = NewWavWriter(path, config[1], config[2])
  /\ wav_calls = [written |-> 0, writes |-> 0, last |-> "new", ok |-> TRUE,
                  prev |-> "none", prev_ok |-> TRUE]

called(method, n, ok) ==
  [written |-> wav_calls.written + n,
   writes |-> wav_calls.writes + (IF n > 0 THEN 1 ELSE 0),
   last |-> method, ok |-> ok, prev |-> wav_calls.last, prev_ok |-> wav_calls.ok]

\* One call of a write method with a slice of n samples; Err is returned only by
\* the header rewrite.
write_call(method, n) ==
  /\ wav_writer.open
  /\ wav_calls.writes < MaxWrites
  /\ wav_calls.written + n <= LargeSlice + 2 * MaxWrites
  /\ \E elapsed \in BOOLEAN, io \in IoOutcomes :
       /\ wav_writer' = write_samples(wav_writer, n, elapsed, io)
       /\ wav_calls' = called(method, n, ~elapsed \/ io = "ok")
  /\ UNCHANGED <<recorder_vars, function_vars, manager_vars, transcription_vars, file_vars, engine_vars>>

\* WavWriter::write_samples_f32
write_samples_f32(n) ==
  /\ write_call("write_samples_f32", n)
\* WavWriter::write_samples_i16
write_samples_i16(n) ==
  /\ write_call("write_samples_i16", n)
\* WavWriter::write_samples_u16
write_samples_u16(n) ==
  /\ write_call("write_samples_u16", n)

\* A call of WavWriter::finalize
WavWriter_finalize ==
  /\ wav_writer.open
  /\ \E io \in IoOutcomes :
       /\ wav_writer' = finalize(wav_writer, io)
       /\ wav_calls' = called("finalize", 0, io = "ok")
  /\ UNCHANGED <<recorder_vars, function_vars, manager_vars, transcription_vars, file_vars, engine_vars>>

\* The writer goes out of scope: Drop for WavWriter
WavWriter_drop ==
  /\ wav_writer.open
  /\ \E io \in IoOutcomes :
       /\ wav_writer' = drop_writer(wav_writer, io, TRUE)
       /\ wav_calls' = called("drop", 0, TRUE)
  /\ UNCHANGED <<recorder_vars, function_vars, manager_vars, transcription_vars, file_vars, engine_vars>>

WriterNext ==
  \/ \E n \in SliceLengths : write_samples_f32(n)
  \/ \E n \in SliceLengths : write_samples_i16(n)
  \/ \E n \in SliceLengths : write_samples_u16(n)
  \/ WavWriter_finalize
  \/ WavWriter_drop

WriterSpec == WriterInit /\ [][WriterNext]_vars

\* What the file holds besides the constant header fields: the two size fields
\* and the sample values.
FileBytes(w) == <<w.riff_size, w.data_size, w.payload>>

----------------------------------------------------------------------------
\* n * 4 and 36 + n * 4 as numbers, in the <<high, low>> form of a size field
\* (the high part is 2^16 or more when the number does not fit a u32).
TimesFour(n) == <<n \div 16384, (n % 16384) * 4>>
ThirtySixPlusTimesFour(n) ==
  <<n \div 16384 + ((n % 16384) * 4 + 36) \div 65536, ((n % 16384) * 4 + 36) % 65536>>

C12_FinalizeTwiceSameFile ==
  [][((WavWriter_finalize \/ WavWriter_drop) /\ wav_calls.last = "finalize")
       => FileBytes(wav_writer') = FileBytes(wav_writer)]_vars

\* C12 amended: a finalize (the destructor's included) that follows a finalize
\* which returned Ok, with no write in between, leaves the file as it was,
\* whether it succeeds or fails itself; after a finalize that failed, the next
\* one can still change the size fields, and never the sample values.
C12_FinalizeIdempotent ==
  [][((WavWriter_finalize \/ WavWriter_drop) /\ wav_calls.last = "finalize")
       => /\ wav_calls.ok => FileBytes(wav_writer') = FileBytes(wav_writer)
          /\ wav_writer'.payload = wav_writer.payload]_vars

\* The destructor has run its finalize right after a finalize that returned Ok,
\* on a file with samples.
C12_Witness ==
  /\ wav_calls.last = "drop"
  /\ wav_calls.prev = "finalize"
  /\ wav_calls.prev_ok
  /\ wav_calls.written > 0
  /\ wav_writer.data_size = TimesFour(wav_calls.written)

----------------------------------------------------------------------------
\* get_optimal_config (recorder.rs). A sample rate is a u32, kept like the size
\* fields as <<high, low>> 16-bit halves.

\* a <= b and a < b for two u32 values
le_u32(a, b) == a[1] < b[1] \/ (a[1] = b[1] /\ a[2] <= b[2])
lt_u32(a, b) == a[1] < b[1] \/ (a[1] = b[1] /\ a[2] < b[2])
\* `x as i32`: the same 32 bits read as two's complement
as_i32(a) == (IF a[1] < HALF \div 2 THEN a[1] ELSE a[1] - HALF) * HALF + a[2]
\* i32::abs
abs(x) == IF x < 0 THEN 0 - x ELSE x
\* u32::MAX
u32_MAX == <<HALF - 1, HALF - 1>>

\* The rates of the model: 8000, 16000, 22050, 44100, 48000, 96000 and
\* 4000000000 (a rate of 2^31 or more).
rate_8000 == u64(8000)
rate_16000 == u64(16000)
rate_22050 == u64(22050)
rate_44100 == u64(44100)
rate_48000 == u64(48000)
rate_96000 == u64(96000)
rate_4e9 == <<61035, 10240>>

\* cpal::SupportedStreamConfigRange: channels, min_sample_rate, max_sample_rate.
Range(ch, lo, hi) == [channels |-> ch, min_sample_rate |-> lo, max_sample_rate |-> hi]
SupportedRanges ==
  {Range(1, rate_8000, rate_8000), Range(1, rate_44100, rate_48000),
   Range(1, rate_8000, rate_48000), Range(2, rate_44100, rate_48000),
   Range(2, rate_8000, rate_48000)}
\* preferred_sample_rate: Option<u32>
PreferredRates == {None, rate_22050, rate_44100, rate_96000, rate_4e9}

\* cpal::SupportedStreamConfig: channels and one sample rate
StreamConfig(ch, rate) == [channels |-> ch, sample_rate |-> rate]
\* SupportedStreamConfigRange::with_sample_rate
with_sample_rate(config, rate) == StreamConfig(config.channels, rate)

\* Result<cpal::SupportedStreamConfig>
ConfigOk(config) == [ok |-> TRUE, err |-> "", config |-> config]
ConfigErr(message) == [ok |-> FALSE, err |-> message, config |-> None]

\* Result of supported_input_configs(): the configurations in the host's order
ConfigsOk(configs) == [ok |-> TRUE, configs |-> configs]
ConfigsErr == [ok |-> FALSE, configs |-> <<>>]

\* A device as get_optimal_config sees it: what supported_input_configs() and
\* default_input_config() return.
Device(supported, default) ==
  [supported_input_configs |-> supported, default_input_config |-> default]

SeqsUpTo(S, n) == UNION {[1 .. k -> S] : k \in 0 .. n}

Devices ==
  {Device(supported, default) :
     supported \in {ConfigsErr}
                     \cup {ConfigsOk(configs) : configs \in SeqsUpTo(SupportedRanges, MaxConfigs)},
     default \in {ConfigErr("default_input_config"),
                  ConfigOk(StreamConfig(2, rate_48000))}}

\* min_rate <= target_sample_rate && max_rate >= target_sample_rate
in_range(config, target) ==
  le_u32(config.min_sample_rate, target) /\ le_u32(target, config.max_sample_rate)

\* The loop of lines 334-342 from position i: the first mono configuration whose
\* range holds the target, 0 when there is none.
RECURSIVE find_mono(_, _, _)
find_mono(configs, target, i) ==
  IF i > Len(configs) THEN 0
  ELSE IF configs[i].channels = 1 /\ in_range(configs[i], target) THEN i
  ELSE find_mono(configs, target, i + 1)

\* The loop of lines 345-351 from position i: the first configuration whose range
\* holds the target, 0 when there is none.
RECURSIVE find_any(_, _, _)
find_any(configs, target, i) ==
  IF i > Len(configs) THEN 0
  ELSE IF in_range(configs[i], target) THEN i
  ELSE find_any(configs, target, i + 1)

\* Lines 364-370
closest_rate(config, target) ==
  IF lt_u32(target, config.min_sample_rate) THEN config.min_sample_rate
  ELSE IF lt_u32(config.max_sample_rate, target) THEN config.max_sample_rate
  ELSE target

\* The loop of lines 357-378 from position i, with best_diff and best_config as
\* they stand.
RECURSIVE find_closest(_, _, _, _, _)
find_closest(configs, target, i, best_diff, best_config) ==
  IF i > Len(configs) THEN best_config
  ELSE IF configs[i].channels = 1
  THEN LET closest == closest_rate(configs[i], target)
           diff == u64(abs(as_i32(closest) - as_i32(target)))
       IN  IF lt_u32(diff, best_diff)
           THEN find_closest(configs, target, i + 1, diff,
                             ConfigOk(with_sample_rate(configs[i], closest)))
           ELSE find_closest(configs, target, i + 1, best_diff, best_config)
  ELSE find_closest(configs, target, i + 1, best_diff, best_config)

\* get_optimal_config taking the first configuration whose range holds the
\* target, mono or not.
get_optimal_config_first_fit(device, preferred_sample_rate) ==
  LET target == IF preferred_sample_rate = None THEN rate_16000 ELSE preferred_sample_rate
      configs == device.supported_input_configs.configs
  IN  IF ~device.supported_input_configs.ok THEN ConfigErr("supported_input_configs")
      ELSE IF configs = <<>> THEN ConfigErr("No supported input configurations")
      ELSE IF find_any(configs, target, 1) # 0
      THEN ConfigOk(with_sample_rate(configs[find_any(configs, target, 1)], target))
      ELSE LET best_config == find_closest(configs, target, 1, u32_MAX, None)
           IN  IF best_config # None THEN best_config
               ELSE IF device.default_input_config.ok THEN device.default_input_config
               ELSE ConfigErr("Failed to find suitable audio configuration")

\* get_optimal_config
get_optimal_config(device, preferred_sample_rate) ==
  LET target == IF preferred_sample_rate = None THEN rate_16000 ELSE preferred_sample_rate
      configs == device.supported_input_configs.configs
  IN  IF ~device.supported_input_configs.ok THEN ConfigErr("supported_input_configs")
      ELSE IF configs = <<>> THEN ConfigErr("No supported input configurations")
      ELSE IF find_mono(configs, target, 1) # 0
      THEN ConfigOk(with_sample_rate(configs[find_mono(configs, target, 1)], target))
      ELSE IF find_any(configs, target, 1) # 0
      THEN ConfigOk(with_sample_rate(configs[find_any(configs, target, 1)], target))
      ELSE LET best_config == find_closest(configs, target, 1, u32_MAX, None)
           IN  IF best_config # None THEN best_config
               ELSE IF device.default_input_config.ok THEN device.default_input_config
               ELSE ConfigErr("Failed to find suitable audio configuration")

\* A function is called with arguments drawn from the sets above.
FunctionInit ==
  /\ RecorderInit
  /\ WriterAtRest
  /\ ManagerInit
  /\ FileAtRest
  /\ EngineAtRest
  /\ TranscriptionAtRest
  /\ \E device \in Devices, preferred \in PreferredRates :
       call = [fn |-> "get_optimal_config", device |-> device,
               preferred_sample_rate |-> preferred]
  /\ returned = None

\* The call of get_optimal_config returns.
get_optimal_config_returns ==
  /\ call.fn = "get_optimal_config"
  /\ returned = None
  /\ returned' = get_optimal_config(call.device, call.preferred_sample_rate)
  /\ UNCHANGED <<recorder_vars, writer_vars, manager_vars, transcription_vars, file_vars, engine_vars, call>>

FunctionNext ==
  \/ get_optimal_config_returns

FunctionSpec == FunctionInit /\ [][FunctionNext]_vars

----------------------------------------------------------------------------
\* The target rate, the listed configurations and the sets the four rules speak of.
Target == IF call.preferred_sample_rate = None THEN rate_16000 ELSE call.preferred_sample_rate
Listed == call.device.supported_input_configs.configs
Holds(config) == le_u32(config.min_sample_rate, Target) /\ le_u32(Target, config.max_sample_rate)
MonoHolding == {i \in DOMAIN Listed : Listed[i].channels = 1 /\ Holds(Listed[i])}
MultiHolding == {i \in DOMAIN Listed : Listed[i].channels > 1 /\ Holds(Listed[i])}
Monos == {i \in DOMAIN Listed : Listed[i].channels = 1}

\* The target clamped into the range of a configuration.
Clamped(config) ==
  IF Holds(config) THEN Target
  ELSE IF lt_u32(Target, config.min_sample_rate) THEN config.min_sample_rate
  ELSE config.max_sample_rate

\* The distance of two rates as a number, high part first.
Distance(a, b) ==
  LET hi == IF le_u32(b, a) THEN a ELSE b
      lo == IF le_u32(b, a) THEN b ELSE a
  IN  IF hi[2] >= lo[2] THEN <<hi[1] - lo[1], hi[2] - lo[2]>>
      ELSE <<hi[1] - lo[1] - 1, hi[2] - lo[2] + 65536>>

Rule1 == returned = ConfigOk(StreamConfig(1, Target))
Rule2 == \E i \in MultiHolding : returned = ConfigOk(StreamConfig(Listed[i].channels, Target))
Rule3 ==
  \E i \in Monos :
    /\ returned = ConfigOk(StreamConfig(1, Clamped(Listed[i])))
    /\ \A j \in Monos : le_u32(Distance(Clamped(Listed[i]), Target),
                              Distance(Clamped(Listed[j]), Target))

\* The target and every listed rate are below 2^31.
RatesBelow2p31 ==
  /\ Target[1] < 32768
  /\ \A i \in DOMAIN Listed : Listed[i].max_sample_rate[1] < 32768

cache_duration == 10
recv_timeout_secs == 5
stale_after_secs == 5

\* String::cmp on the device names.
Rank(name) == IF name = "mic" THEN 1 ELSE 2
str_le(a, b) == Rank(a) <= Rank(b)

\* One device of a host listing whose name() is Ok: its name and whether
\* default_input_config() is Ok.  A device whose name() fails is skipped by
\* every loop of the code and is left out of the listing.
HostDevice == [name : DeviceNames, usable : BOOLEAN]

\* What Host::input_devices() can answer: an error, or some devices.  Every
\* loop over a listing keeps one device per name and ignores the order of the
\* others, so the listings taken are those with one device per name, in the
\* order of the names.
InputDevices ==
  {[ok |-> FALSE, devices |-> <<>>]}
    \cup {[ok |-> TRUE, devices |-> ds] :
            ds \in {q \in SeqsUpTo(HostDevice, Cardinality(DeviceNames)) :
                      \A i, j \in DOMAIN q : i < j => Rank(q[i].name) < Rank(q[j].name)}}

\* Host::default_input_device(): None or a device, known here by its name.
DefaultInputDevice == {None} \cup {<<d>> : d \in DeviceNames}

\* The orders in which HashMap::values() can visit the cache.
ValuesOrders ==
  {o \in [1 .. Cardinality(DeviceNames) -> DeviceNames] :
     \A i, j \in DOMAIN o : o[i] = o[j] => i = j}

ReplyOk(value) == [ok |-> TRUE, err |-> "", value |-> value]
ReplyErr(message) == [ok |-> FALSE, err |-> message, value |-> <<>>]

\* The record of a call of Host::default_input_device() and its answer.
default_input_device(default) ==
  IF default = None THEN "default_input_device: None"
  ELSE IF default = <<"mic">> THEN "default_input_device: Some(mic)"
  ELSE "default_input_device: Some(usb)"

\* The record of a call of Host::input_devices().
input_devices(listing) == IF listing.ok THEN "input_devices: Ok" ELSE "input_devices: Err"

\* The worker's fields, with the record of its host calls in this iteration.
Worker ==
  [device_cache |-> device_cache, last_full_refresh |-> last_full_refresh,
   probes |-> probes, host_calls |-> <<>>]

\* Instant::now() stored: nothing has elapsed since.
Some_now == [is_some |-> TRUE, elapsed |-> 0]

RECURSIVE insert_listed(_, _, _)
\* refresh_cache, the loop over the listed devices: probe and insert each.
insert_listed(self, devices, i) ==
  IF i > Len(devices) THEN self
  ELSE LET name == devices[i].name
           is_available == devices[i].usable
       IN insert_listed(
            [self EXCEPT
               !.device_cache[name] =
                  [cached |-> TRUE, is_available |-> is_available, last_checked |-> 0],
               !.probes[name] = IF is_available THEN "ok" ELSE "failed"],
            devices, i + 1)

\* A refresh that empties the cache when the scan fails.
refresh_cache_clearing(self, listing) ==
  IF listing.ok
  THEN [insert_listed([self EXCEPT
                         !.device_cache = [d \in DeviceNames |->
                                             [self.device_cache[d] EXCEPT
                                                !.is_available = FALSE]],
                         !.host_calls = Append(@, input_devices(listing))],
                      listing.devices, 1)
          EXCEPT !.last_full_refresh = Some_now]
  ELSE [self EXCEPT !.device_cache = [d \in DeviceNames |-> NotCached],
                    !.host_calls = Append(@, input_devices(listing)),
                    !.last_full_refresh = Some_now]

\* AudioManagerWorker::refresh_cache with the host's answer.
refresh_cache(self, listing) ==
  LET marked == [self EXCEPT
                   !.device_cache = [d \in DeviceNames |->
                                       [self.device_cache[d] EXCEPT !.is_available = FALSE]],
                   !.host_calls = Append(@, input_devices(listing))]
      scanned ==
        IF listing.ok
        THEN insert_listed(marked, listing.devices, 1)
        ELSE [marked EXCEPT
                !.device_cache = [d \in DeviceNames |->
                                    IF marked.device_cache[d].cached
                                    THEN [marked.device_cache[d] EXCEPT !.is_available = TRUE]
                                    ELSE marked.device_cache[d]]]
  IN [scanned EXCEPT !.last_full_refresh = Some_now]

\* values().filter(is_available).map(name).collect(), visiting in `order`.
collect_available(self, order) ==
  SelectSeq(order, LAMBDA d : self.device_cache[d].cached
                              /\ self.device_cache[d].is_available)

RECURSIVE insert_sorted(_, _)
insert_sorted(sorted, x) ==
  IF sorted = <<>> THEN <<x>>
  ELSE IF str_le(x, Head(sorted)) THEN <<x>> \o sorted
  ELSE <<Head(sorted)>> \o insert_sorted(Tail(sorted), x)

RECURSIVE sort_from(_, _, _)
sort_from(v, i, sorted) ==
  IF i > Len(v) THEN sorted ELSE sort_from(v, i + 1, insert_sorted(sorted, v[i]))

\* What a sort that does nothing would leave.
sort_skipped(v) == v

\* Vec<String>::sort
sort(v) == sort_from(v, 1, <<>>)

\* A window that ends when the limit is reached.
needs_refresh_at_limit(self) ==
  IF self.last_full_refresh.is_some
  THEN self.last_full_refresh.elapsed >= cache_duration
  ELSE TRUE

needs_refresh(self) ==
  IF self.last_full_refresh.is_some
  THEN self.last_full_refresh.elapsed > cache_duration
  ELSE TRUE

\* An enumerate that reports an empty list without scanning again.
enumerate_devices_cached_once(self, first, second, order) ==
  LET refreshed == IF needs_refresh(self) THEN refresh_cache(self, first) ELSE self
      devices == sort(collect_available(refreshed, order))
  IN [self |-> refreshed,
      available_first |-> {devices[i] : i \in DOMAIN devices},
      result |-> ReplyOk(devices)]

\* AudioManagerWorker::enumerate_devices_cached; `first` and `second` are the
\* host's answers to the scans it makes, if it makes them.
enumerate_devices_cached(self, first, second, order) ==
  LET refreshed == IF needs_refresh(self) THEN refresh_cache(self, first) ELSE self
      devices == sort(collect_available(refreshed, order))
      again == refresh_cache(refreshed, second)
  IN IF devices = <<>>
     THEN [self |-> again, available_first |-> {},
           result |-> ReplyOk(sort(collect_available(again, order)))]
     ELSE [self |-> refreshed,
           available_first |-> {devices[i] : i \in DOMAIN devices},
           result |-> ReplyOk(devices)]

to_lowercase(name) == IF name \in {"default", "DEFAULT"} THEN "default" ELSE name

\* Index of the first listed device with this name, 0 if there is none.
position(devices, name) ==
  LET at == {i \in DOMAIN devices : devices[i].name = name}
  IN IF at = {} THEN 0 ELSE CHOOSE i \in at : \A j \in at : i <= j

\* AudioManagerWorker::refresh_single_device
refresh_single_device(self, name, listing) ==
  LET scanned == [self EXCEPT !.host_calls = Append(@, input_devices(listing))]
      i == position(listing.devices, name)
  IN IF listing.ok /\ i # 0
     THEN [scanned EXCEPT
             !.device_cache[name] =
                [cached |-> TRUE, is_available |-> listing.devices[i].usable,
                 last_checked |-> 0],
             !.probes[name] = IF listing.devices[i].usable THEN "ok" ELSE "failed"]
     ELSE IF scanned.device_cache[name].cached
     THEN [scanned EXCEPT !.device_cache[name].is_available = FALSE,
                          !.device_cache[name].last_checked = 0]
     ELSE scanned

\* AudioManagerWorker::get_device, the part after the cache check.
get_actual_device(self, name, listing) ==
  LET scanned == [self EXCEPT !.host_calls = Append(@, input_devices(listing))]
      i == position(listing.devices, name)
  IN IF ~listing.ok
     THEN [self |-> scanned, result |-> ReplyErr("Failed to enumerate devices")]
     ELSE IF i = 0
     THEN [self |-> scanned, result |-> ReplyErr("Device not found")]
     ELSE IF listing.devices[i].usable
     THEN [self |-> [scanned EXCEPT !.probes[name] = "ok"],
           result |-> ReplyOk(<<name>>)]
     ELSE [self |-> [scanned EXCEPT !.probes[name] = "failed"],
           result |-> ReplyErr("Device exists but is not accessible")]

\* A get_device that refreshes the cache before it looks at the name.
get_device_refreshing(self, name, default, first, second) ==
  LET refreshed == refresh_cache(self, first)
  IN IF to_lowercase(name) = "default"
     THEN [self |-> [refreshed EXCEPT
                       !.host_calls = Append(@, default_input_device(default))],
           result |-> IF default = None
                      THEN ReplyErr("No default input device available")
                      ELSE ReplyOk(default)]
     ELSE get_actual_device(refreshed, name, second)

\* AudioManagerWorker::get_device
get_device(self, name, default, first, second) ==
  IF to_lowercase(name) = "default"
  THEN [self |-> [self EXCEPT !.host_calls = Append(@, default_input_device(default))],
        result |-> IF default = None
                   THEN ReplyErr("No default input device available")
                   ELSE ReplyOk(default)]
  ELSE LET info == self.device_cache[name]
       IN IF info.cached /\ ~info.is_available
          THEN [self |-> self, result |-> ReplyErr("Device is not available")]
          ELSE IF info.cached
          THEN get_actual_device(
                 IF info.last_checked > stale_after_secs
                 THEN refresh_single_device(self, name, first)
                 ELSE self,
                 name, second)
          ELSE get_actual_device(refresh_cache(self, first), name, second)

NotWaiting == [id |-> 0, cmd |-> "none", waited |-> 0]
NoChannel == [for |-> 0, msgs |-> <<>>]

\* self.sender.send(command): the command joins the worker's queue.
send_command(cmd, name) ==
  /\ next_request <= MaxRequests
  /\ receiver' = Append(receiver, [id |-> next_request, cmd |-> cmd, name |-> name])
  /\ next_request' = next_request + 1

\* AudioManager::enumerate_devices up to recv_timeout: a response channel is
\* made and its sender goes with the command.  The Mutex around the global
\* manager lets one caller in at a time.
AudioManager_enumerate_devices ==
  /\ waiting = NotWaiting
  /\ send_command("EnumerateDevices", "")
  /\ response' = [for |-> next_request, msgs |-> <<>>]
  /\ waiting' = [id |-> next_request, cmd |-> "EnumerateDevices", waited |-> 0]
  /\ UNCHANGED <<device_cache, last_full_refresh, manager_ret, probes, worker_did,
                 host_queried_by>>
  /\ UNCHANGED <<recorder_vars, writer_vars, function_vars, transcription_vars, file_vars, engine_vars>>

RequestNames == DeviceNames \cup {"default"}

\* AudioManager::get_device up to recv_timeout.
AudioManager_get_device(name) ==
  /\ waiting = NotWaiting
  /\ send_command("GetDevice", name)
  /\ response' = [for |-> next_request, msgs |-> <<>>]
  /\ waiting' = [id |-> next_request, cmd |-> "GetDevice", waited |-> 0]
  /\ UNCHANGED <<device_cache, last_full_refresh, manager_ret, probes, worker_did,
                 host_queried_by>>
  /\ UNCHANGED <<recorder_vars, writer_vars, function_vars, transcription_vars, file_vars, engine_vars>>

\* AudioManager::refresh_cache: sends and returns.
AudioManager_refresh_cache ==
  /\ waiting = NotWaiting
  /\ send_command("RefreshCache", "")
  /\ manager_ret' = [id |-> next_request, result |-> ReplyOk(<<>>)]
  /\ UNCHANGED <<device_cache, last_full_refresh, response, waiting, probes, worker_did,
                 host_queried_by>>
  /\ UNCHANGED <<recorder_vars, writer_vars, function_vars, transcription_vars, file_vars, engine_vars>>

\* A reply sent to whichever caller is waiting.
respond_to_waiting(id, result) ==
  IF waiting # NotWaiting
  THEN [response EXCEPT !.msgs = Append(@, [for |-> id, result |-> result])]
  ELSE response

\* let _ = response.send(result): the reply goes into the channel made for
\* this request; if its receiver is gone the reply is discarded.
respond(id, result) ==
  IF response.for = id
  THEN [response EXCEPT !.msgs = Append(@, [for |-> id, result |-> result])]
  ELSE response

\* The worker's fields after an iteration of its loop.
worker_stores(self, command, available_first, result) ==
  /\ device_cache' = self.device_cache
  /\ last_full_refresh' = self.last_full_refresh
  /\ probes' = self.probes
  /\ worker_did' = [id |-> command.id, cmd |-> command.cmd, host_calls |-> self.host_calls,
                    available_first |-> available_first, reply |-> result]
  /\ host_queried_by' = IF self.host_calls = <<>> THEN host_queried_by ELSE "audio-manager"
  /\ receiver' = Tail(receiver)

\* One answer per scan the iteration can make, none where it makes none.
Answers(asked) == IF asked THEN InputDevices ELSE {[ok |-> FALSE, devices |-> <<>>]}

\* run, Ok(AudioCommand::EnumerateDevices { response })
run_EnumerateDevices ==
  /\ receiver # <<>>
  /\ Head(receiver).cmd = "EnumerateDevices"
  /\ \E order \in ValuesOrders, first \in Answers(needs_refresh(Worker)) :
       \E second \in Answers(collect_available(
                               IF needs_refresh(Worker)
                               THEN refresh_cache(Worker, first) ELSE Worker,
                               order) = <<>>) :
         LET done == enumerate_devices_cached(Worker, first, second, order)
         IN /\ worker_stores(done.self, Head(receiver), done.available_first, done.result)
            /\ response' = respond(Head(receiver).id, done.result)
  /\ UNCHANGED <<waiting, manager_ret, next_request>>
  /\ UNCHANGED <<recorder_vars, writer_vars, function_vars, transcription_vars, file_vars, engine_vars>>

\* run, Ok(AudioCommand::GetDevice { name, response })
run_GetDevice ==
  /\ receiver # <<>>
  /\ Head(receiver).cmd = "GetDevice"
  /\ LET name == Head(receiver).name
         is_default == to_lowercase(name) = "default"
         info == IF is_default THEN NotCached ELSE device_cache[name]
         refused == info.cached /\ ~info.is_available
         fresh == info.cached /\ info.last_checked <= stale_after_secs
     IN \E default \in (IF is_default THEN DefaultInputDevice ELSE {None}),
           first \in Answers(~is_default /\ ~refused /\ ~fresh),
           second \in Answers(~is_default /\ ~refused) :
          LET done == get_device(Worker, name, default, first, second)
          IN /\ worker_stores(done.self, Head(receiver), {}, done.result)
             /\ response' = respond(Head(receiver).id, done.result)
  /\ UNCHANGED <<waiting, manager_ret, next_request>>
  /\ UNCHANGED <<recorder_vars, writer_vars, function_vars, transcription_vars, file_vars, engine_vars>>

\* run, Ok(AudioCommand::RefreshCache)
run_RefreshCache ==
  /\ receiver # <<>>
  /\ Head(receiver).cmd = "RefreshCache"
  /\ \E listing \in InputDevices :
       worker_stores(refresh_cache(Worker, listing), Head(receiver), {}, NoReply)
  /\ UNCHANGED <<response, waiting, manager_ret, next_request>>
  /\ UNCHANGED <<recorder_vars, writer_vars, function_vars, transcription_vars, file_vars, engine_vars>>

\* response_rx.recv_timeout(..) returns Ok(reply): the call returns the reply.
recv_reply ==
  /\ waiting # NotWaiting
  /\ response.msgs # <<>>
  /\ manager_ret' = [id |-> waiting.id, result |-> Head(response.msgs).result]
  /\ waiting' = NotWaiting
  /\ response' = NoChannel
  /\ UNCHANGED <<device_cache, last_full_refresh, receiver, next_request, probes,
                 worker_did, host_queried_by>>
  /\ UNCHANGED <<recorder_vars, writer_vars, function_vars, transcription_vars, file_vars, engine_vars>>

\* response_rx.recv_timeout(Duration::from_secs(5)) returns Err(Timeout).
recv_timed_out ==
  /\ waiting # NotWaiting
  /\ response.msgs = <<>>
  /\ waiting.waited >= recv_timeout_secs
  /\ manager_ret' = [id |-> waiting.id,
                     result |-> ReplyErr(IF waiting.cmd = "EnumerateDevices"
                                         THEN "Failed to receive device list: timed out"
                                         ELSE "Failed to receive device: timed out")]
  /\ waiting' = NotWaiting
  /\ response' = NoChannel
  /\ UNCHANGED <<device_cache, last_full_refresh, receiver, next_request, probes,
                 worker_did, host_queried_by>>
  /\ UNCHANGED <<recorder_vars, writer_vars, function_vars, transcription_vars, file_vars, engine_vars>>

older(elapsed, limit) ==
  IF elapsed > limit THEN elapsed ELSE elapsed + recv_timeout_secs

\* Time passes, five seconds at a time: every limit the code compares an
\* elapsed time with is a multiple of that.  A waiting caller wakes as soon as
\* its reply is there or its five seconds are over.  Elapsed times are kept up
\* to the first value beyond the limit they are compared with.
time_passes ==
  /\ \/ waiting = NotWaiting
     \/ response.msgs = <<>> /\ waiting.waited < recv_timeout_secs
  /\ waiting' = IF waiting = NotWaiting THEN waiting
                ELSE [waiting EXCEPT !.waited = @ + recv_timeout_secs]
  /\ last_full_refresh' =
       IF last_full_refresh.is_some
       THEN [last_full_refresh EXCEPT !.elapsed = older(@, cache_duration)]
       ELSE last_full_refresh
  /\ device_cache' = [d \in DeviceNames |->
                        IF device_cache[d].cached
                        THEN [device_cache[d] EXCEPT
                                !.last_checked = older(@, stale_after_secs)]
                        ELSE device_cache[d]]
  /\ UNCHANGED <<receiver, response, manager_ret, next_request, probes, worker_did,
                 host_queried_by>>
  /\ UNCHANGED <<recorder_vars, writer_vars, function_vars, transcription_vars, file_vars, engine_vars>>

ManagerNext ==
  \/ AudioManager_enumerate_devices
  \/ \E name \in RequestNames : AudioManager_get_device(name)
  \/ AudioManager_refresh_cache
  \/ run_EnumerateDevices
  \/ run_GetDevice
  \/ run_RefreshCache
  \/ recv_reply
  \/ recv_timed_out
  \/ time_passes

\* The process has started: the manager is new and nothing else has happened.
ManagerAloneInit ==
  /\ RecorderInit
  /\ WriterAtRest
  /\ FunctionAtRest
  /\ ManagerInit
  /\ FileAtRest
  /\ EngineAtRest
  /\ TranscriptionAtRest

ManagerSpec == ManagerAloneInit /\ [][ManagerNext]_vars

----------------------------------------------------------------------------
\* The capture session code's own device queries (recorder/recorder.rs), made
\* on the thread of whoever calls the command.

\* RecorderState::enumerate_devices with the host's answer.
enumerate_devices(listing) ==
  IF listing.ok
  THEN ReplyOk([i \in DOMAIN listing.devices |-> listing.devices[i].name])
  ELSE ReplyErr("Failed to get input devices")

\* find_device with the host's answers.
find_device(device_name, default, listing) ==
  IF to_lowercase(device_name) = "default"
  THEN IF default = None
       THEN ReplyErr("No default input device available")
       ELSE ReplyOk(default)
  ELSE IF ~listing.ok
  THEN ReplyErr("input_devices failed")
  ELSE IF position(listing.devices, device_name) # 0
  THEN ReplyOk(<<device_name>>)
  ELSE ReplyErr("Device not found")

\* The enumerate_recording_devices command calls RecorderState::enumerate_devices.
RecorderState_enumerate_devices ==
  /\ pc = "ready"
  /\ \E listing \in InputDevices :
       /\ call' = [fn |-> "RecorderState::enumerate_devices"]
       /\ returned' = enumerate_devices(listing)
  /\ host_queried_by' = "caller"
  /\ UNCHANGED <<device_cache, last_full_refresh, receiver, response, waiting,
                 manager_ret, next_request, probes, worker_did>>
  /\ UNCHANGED <<recorder_vars, writer_vars, transcription_vars, file_vars, engine_vars>>

\* init_session calls find_device(&host, &device_name).
init_session_find_device(device_name) ==
  /\ pc = "ready"
  /\ \E default \in (IF to_lowercase(device_name) = "default"
                    THEN DefaultInputDevice ELSE {None}),
        listing \in Answers(to_lowercase(device_name) # "default") :
       /\ call' = [fn |-> "find_device", device_name |-> device_name,
                   host |-> IF to_lowercase(device_name) = "default"
                            THEN default_input_device(default)
                            ELSE input_devices(listing)]
       /\ returned' = find_device(device_name, default, listing)
  /\ host_queried_by' = "caller"
  /\ UNCHANGED <<device_cache, last_full_refresh, receiver, response, waiting,
                 manager_ret, next_request, probes, worker_did>>
  /\ UNCHANGED <<recorder_vars, writer_vars, transcription_vars, file_vars, engine_vars>>

\* The device queries of the program: those of the capture session code and
\* the enumerate requests served by the audio manager's worker.
HostQueryNext ==
  \/ RecorderState_enumerate_devices
  \/ \E name \in RequestNames : init_session_find_device(name)
  \/ AudioManager_enumerate_devices
  \/ run_EnumerateDevices
  \/ recv_reply
  \/ recv_timed_out
  \/ time_passes

HostQuerySpec == ManagerAloneInit /\ [][HostQueryNext]_vars

\* C14: every host query that enumerates, probes or resolves capture devices
\* is made by the audio-manager worker thread; the capture session code never
\* queries the host from the caller's thread.
C14_HostQueriesOnWorker == host_queried_by \in {"none", "audio-manager"}

----------------------------------------------------------------------------
TimedOut(result) ==
  /\ ~result.ok
  /\ result.err \in {"Failed to receive device list: timed out",
                     "Failed to receive device: timed out"}

\* C15: a caller of AudioManager::enumerate_devices or get_device waits at
\* most 5 s; the call returns a timeout error if no reply has arrived by then
\* and otherwise exactly the reply the worker produced for that request.
C15_BoundedWait ==
  [][/\ waiting'.waited <= recv_timeout_secs
     /\ (waiting # NotWaiting /\ waiting' = NotWaiting)
          => /\ manager_ret'.id = waiting.id
             /\ IF response.msgs = <<>>
                THEN /\ waiting.waited = recv_timeout_secs
                     /\ TimedOut(manager_ret'.result)
                ELSE /\ Head(response.msgs).for = waiting.id
                     /\ manager_ret'.result = Head(response.msgs).result
     /\ (response'.msgs # <<>> /\ response'.msgs # response.msgs)
          => /\ response'.msgs = Append(response.msgs,
                                        [for |-> worker_did'.id,
                                         result |-> worker_did'.reply])
             /\ worker_did'.id = Head(receiver).id
    ]_vars

\* The second request got the worker's reply, a device list that is not empty.
C15_Witness ==
  /\ waiting = NotWaiting
  /\ manager_ret.id = 2
  /\ worker_did.id = 2
  /\ worker_did.cmd = "EnumerateDevices"
  /\ manager_ret.result = worker_did.reply
  /\ manager_ret.result.value # <<>>

----------------------------------------------------------------------------
\* The worker takes a command of this kind from its queue and handles it.
Served(cmd) ==
  /\ receiver # <<>>
  /\ Head(receiver).cmd = cmd
  /\ receiver' = Tail(receiver)

\* C16: enumerate returns names in ascending order without duplicates, and
\* every returned name is a cache entry whose availability flag is true at
\* the time of the reply.
C16_SortedAvailable ==
  [][Served("EnumerateDevices")
       => LET names == worker_did'.reply.value
          IN /\ worker_did'.reply.ok
             /\ \A i, j \in DOMAIN names :
                  i < j => Rank(names[i]) < Rank(names[j])
             /\ \A i \in DOMAIN names :
                  /\ device_cache'[names[i]].cached
                  /\ device_cache'[names[i]].is_available
    ]_vars

\* An enumerate has just been answered with both names.
C16_Witness ==
  /\ worker_did.cmd = "EnumerateDevices"
  /\ worker_did.reply.value = <<"mic", "usb">>
  /\ device_cache["mic"].is_available
  /\ device_cache["usb"].is_available

----------------------------------------------------------------------------
\* C17: a device whose most recent usability probe failed is never in an
\* enumerate result, after any sequence of successful and failed scans.
C17_ProbeFailedNeverListed ==
  [][Served("EnumerateDevices")
       => \A i \in DOMAIN worker_did'.reply.value :
            probes'[worker_did'.reply.value[i]] # "failed"
    ]_vars

----------------------------------------------------------------------------
\* The names the cache holds.
Cached == {d \in DeviceNames : device_cache[d].cached}

\* The iteration just made calls refresh_cache, and a scan of it failed.
FullScanFailed ==
  /\ \/ Served("EnumerateDevices")
     \/ Served("RefreshCache")
     \/ /\ Served("GetDevice")
        /\ Head(receiver).name \in DeviceNames \ Cached
  /\ worker_did'.host_calls # <<>>
  /\ \/ worker_did'.host_calls[1] = "input_devices: Err"
     \/ /\ Served("EnumerateDevices")
        /\ \E i \in DOMAIN worker_did'.host_calls :
             worker_did'.host_calls[i] = "input_devices: Err"

\* C18: a host scan that fails outright removes no entry from the cache:
\* every name cached before it is cached afterwards, its flag is true, and
\* the enumerate that made the scan reports it.
C18_FailedScanKeepsCache ==
  [][FullScanFailed
       => \A d \in Cached :
            /\ device_cache'[d].cached
            /\ device_cache'[d].is_available
            /\ Served("EnumerateDevices")
                 => \E i \in DOMAIN worker_did'.reply.value :
                      worker_did'.reply.value[i] = d
    ]_vars

\* An enumerate found its cache stale, the scan failed, and both names it
\* had cached are in its reply.
C18_Witness ==
  /\ worker_did.cmd = "EnumerateDevices"
  /\ worker_did.id = 2
  /\ worker_did.host_calls = <<"input_devices: Err">>
  /\ worker_did.reply.value = <<"mic", "usb">>

----------------------------------------------------------------------------
\* The names of the cache entries whose flag is true.
Available == {d \in Cached : device_cache[d].is_available}

\* C19: enumerate makes a full host scan when no scan has been made yet or
\* the last one is older than 10 s; when the last one is within the window
\* and the cache holds an available entry, enumerate answers from the cache
\* and makes no host query.
C19_FreshnessWindow ==
  [][Served("EnumerateDevices")
       => /\ (~last_full_refresh.is_some \/ last_full_refresh.elapsed > cache_duration)
               => /\ worker_did'.host_calls # <<>>
                  /\ last_full_refresh' = Some_now
          /\ (/\ last_full_refresh.is_some
              /\ last_full_refresh.elapsed <= cache_duration
              /\ Available # {})
               => /\ worker_did'.host_calls = <<>>
                  /\ device_cache' = device_cache
                  /\ last_full_refresh' = last_full_refresh
                  /\ {worker_did'.reply.value[i] : i \in DOMAIN worker_did'.reply.value}
                       = Available
    ]_vars

\* The second request, an enumerate ten seconds after the last scan, was
\* answered from the cache.
C19_Witness ==
  /\ worker_did.cmd = "EnumerateDevices"
  /\ worker_did.id = 2
  /\ worker_did.host_calls = <<>>
  /\ worker_did.reply.value = <<"usb">>
  /\ last_full_refresh.elapsed = cache_duration

----------------------------------------------------------------------------
\* C20: when the set of available devices is empty after enumerate's cache
\* check or scan, exactly one additional scan is made and its result is what
\* enumerate returns; one enumerate scans the host at most twice.
C20_OneAdditionalScan ==
  [][Served("EnumerateDevices")
       => LET stale == ~last_full_refresh.is_some
                         \/ last_full_refresh.elapsed > cache_duration
              empty == worker_did'.available_first = {}
              scans == Len(worker_did'.host_calls)
              names == worker_did'.reply.value
          IN /\ ~stale => (empty <=> Available = {})
             /\ scans = (IF stale THEN 1 ELSE 0) + (IF empty THEN 1 ELSE 0)
             /\ scans <= 2
             /\ {names[i] : i \in DOMAIN names}
                  = {d \in DeviceNames : /\ device_cache'[d].cached
                                         /\ device_cache'[d].is_available}
             /\ ~empty => {names[i] : i \in DOMAIN names} = worker_did'.available_first
    ]_vars

\* The first enumerate scanned, found no available device, scanned once more
\* and returned what that scan found.
C20_Witness ==
  /\ worker_did.cmd = "EnumerateDevices"
  /\ worker_did.id = 1
  /\ worker_did.host_calls = <<"input_devices: Ok", "input_devices: Ok">>
  /\ worker_did.available_first = {}
  /\ worker_did.reply.value = <<"mic">>

----------------------------------------------------------------------------
\* Resolving a device by name, through the audio manager and through the
\* capture session code, with the names written in either case.
DefaultNames == {"default", "DEFAULT"}
ResolveNames == {"mic"} \cup DefaultNames

ResolveNext ==
  \/ \E name \in ResolveNames : AudioManager_get_device(name)
  \/ run_GetDevice
  \/ \E name \in DefaultNames : init_session_find_device(name)
  \/ recv_reply
  \/ recv_timed_out
  \/ time_passes

ResolveSpec == ManagerAloneInit /\ [][ResolveNext]_vars

\* What resolving "default" returns when the host call recorded is `asked`.
HostDefault(asked) ==
  IF asked = "default_input_device: None"
  THEN ReplyErr("No default input device available")
  ELSE IF asked = "default_input_device: Some(mic)" THEN ReplyOk(<<"mic">>)
  ELSE ReplyOk(<<"usb">>)

DefaultCalls == {"default_input_device: None", "default_input_device: Some(mic)",
                 "default_input_device: Some(usb)"}

\* C21: resolving "default" or "DEFAULT" returns the host's default input
\* device, or an error if the host has none, whatever the cache contains,
\* without a scan and without a change of the device cache.
C21_DefaultResolves ==
  [][/\ (Served("GetDevice") /\ Head(receiver).name \in DefaultNames)
          => /\ Len(worker_did'.host_calls) = 1
             /\ worker_did'.host_calls[1] \in DefaultCalls
             /\ worker_did'.reply = HostDefault(worker_did'.host_calls[1])
             /\ device_cache' = device_cache
             /\ last_full_refresh' = last_full_refresh
     /\ (call' # call /\ call'.fn = "find_device"
           /\ call'.device_name \in DefaultNames)
          => /\ call'.host \in DefaultCalls
             /\ returned' = HostDefault(call'.host)
             /\ device_cache' = device_cache
    ]_vars

\* "DEFAULT" was resolved to the host's default device while the cache held
\* "mic" as unavailable.
C21_Witness ==
  /\ worker_did.cmd = "GetDevice"
  /\ worker_did.id = 2
  /\ worker_did.host_calls = <<"default_input_device: Some(mic)">>
  /\ manager_ret = [id |-> 2, result |-> ReplyOk(<<"mic">>)]
  /\ device_cache["mic"].cached
  /\ ~device_cache["mic"].is_available

----------------------------------------------------------------------------
\* The audio normalizer (transcription/mod.rs, whisper_cpp/mod.rs).
\*
\* Bytes are kept as what a WAV parser reads from them: the container, the
\* fields of the fmt chunk, the samples of the data chunk, whether the data
\* chunk can be read to its end, and whether chunks other than fmt and data
\* are present.  An f32 value is kept as an integer number of units of
\* 1 / (6 * 32768), which is exact for the means of up to three samples.

MaxInput == 3

TARGET_RATE == 16000
chunk_size == 1024
I16_SCALE == 32768
PCM_SCALE == 32767
ONE == 6 * I16_SCALE

SampleRates == {1999, 2000, 16000, 44100, 128000, 192000}

\* The raw samples taken: 16-bit integers; 32-bit integers with the low 16
\* bits zero, kept as their high 16 bits; 32-bit floats, in units.
RawSamples(format) ==
  IF format.sample_format = "Float" THEN {-(ONE + ONE \div 2), ONE \div 2}
  ELSE {-I16_SCALE, PCM_SCALE}

Formats ==
  {[sample_format |-> "Int", bits_per_sample |-> 16],
   [sample_format |-> "Int", bits_per_sample |-> 24],
   [sample_format |-> "Int", bits_per_sample |-> 32],
   [sample_format |-> "Float", bits_per_sample |-> 32]}

Wav(format, ch, rate, samples, intact, extra_chunks) ==
  [container |-> "wav", sample_format |-> format.sample_format,
   bits_per_sample |-> format.bits_per_sample, channels |-> ch,
   sample_rate |-> rate, samples |-> samples, intact |-> intact,
   extra_chunks |-> extra_chunks]

\* Bytes that are not a WAV container: audio in another container, which the
\* external tool can decode, or no audio at all.
NotWav(container) == [container |-> container]

WavInputs ==
  {Wav(f, c, r, samples, intact, extra) :
     f \in Formats, c \in 1 .. 3, r \in SampleRates,
     samples \in UNION {SeqsUpTo(RawSamples(g), MaxInput) :
                          g \in Formats},
     intact \in BOOLEAN, extra \in BOOLEAN}

AudioInputs ==
  {a \in WavInputs :
     /\ \A i \in DOMAIN a.samples :
          a.samples[i] \in RawSamples(a)
     /\ a.extra_chunks => a.intact}
    \cup {NotWav("mp3"), NotWav("garbage")}

\* hound::WavReader::new(cursor).is_ok()
WavReader_new(bytes) == bytes.container = "wav"

\* A format check that looks at the rate and the channels only.
is_valid_wav_format_any_depth(bytes) ==
  /\ WavReader_new(bytes)
  /\ bytes.channels = 1
  /\ bytes.sample_rate = TARGET_RATE

\* A format check that also wants nothing but the fmt and data chunks.
is_valid_wav_format_bare(bytes) ==
  /\ WavReader_new(bytes)
  /\ bytes.sample_format = "Int"
  /\ bytes.channels = 1
  /\ bytes.sample_rate = TARGET_RATE
  /\ bytes.bits_per_sample = 16
  /\ ~bytes.extra_chunks

is_valid_wav_format(bytes) ==
  /\ WavReader_new(bytes)
  /\ bytes.sample_format = "Int"
  /\ bytes.channels = 1
  /\ bytes.sample_rate = TARGET_RATE
  /\ bytes.bits_per_sample = 16

AudioReadError(message) == [ok |-> FALSE, name |-> "AudioReadError", message |-> message]
FfmpegNotFoundError(message) ==
  [ok |-> FALSE, name |-> "FfmpegNotFoundError", message |-> message]
ModelLoadError(message) == [ok |-> FALSE, name |-> "ModelLoadError", message |-> message]
TranscriptionError(message) ==
  [ok |-> FALSE, name |-> "TranscriptionError", message |-> message]
OkBytes(bytes) == [ok |-> TRUE, bytes |-> bytes]

\* convert_audio_rust, step 1: the samples as f32, or the error.
read_samples_f32(bytes) ==
  IF bytes.sample_format = "Int" /\ bytes.bits_per_sample \notin {16, 32}
  THEN [ok |-> FALSE, message |-> "Unsupported bit depth"]
  ELSE IF ~bytes.intact
  THEN [ok |-> FALSE, message |-> "Failed to read samples"]
  ELSE [ok |-> TRUE,
        samples |-> [i \in DOMAIN bytes.samples |->
                       IF bytes.sample_format = "Float"
                       THEN bytes.samples[i]
                       ELSE bytes.samples[i] * (ONE \div I16_SCALE)]]

RECURSIVE sum(_, _, _)
\* chunk.iter().sum() over samples[from .. to]
sum(samples, from, to) ==
  IF from > to THEN 0 ELSE samples[from] + sum(samples, from + 1, to)

\* A downmix that keeps the first channel of each frame.
to_mono_first_channel(samples_f32, ch) ==
  IF ch = 1 THEN samples_f32
  ELSE [k \in 1 .. (Len(samples_f32) \div ch) |->
          samples_f32[(k - 1) * ch + 1]]

\* convert_audio_rust, step 2: chunks_exact(channels), each averaged.
to_mono(samples_f32, ch) ==
  IF ch = 1 THEN samples_f32
  ELSE IF ch = 2
  THEN [k \in 1 .. (Len(samples_f32) \div 2) |->
          (samples_f32[2 * k - 1] + samples_f32[2 * k]) \div 2]
  ELSE [k \in 1 .. (Len(samples_f32) \div ch) |->
          sum(samples_f32, (k - 1) * ch + 1, k * ch) \div ch]

\* (len as f64 * (16000.0 / sample_rate as f64)).round() as usize
expected_output_len(len, rate) ==
  (2 * len * TARGET_RATE + rate) \div (2 * rate)

\* What the resampler library does in one conversion: whether
\* SincFixedIn::new and process return Ok, and the frames (all of one value
\* here) that process returns for a chunk.
Rubato ==
  [new : BOOLEAN, process : BOOLEAN, frames : {0, 2, 8 * (MaxInput + 2)},
   value : {ONE \div 4}]

\* A truncate that leaves the vector as it is.
truncate_never(v, len) == v

truncate(v, len) == IF Len(v) > len THEN SubSeq(v, 1, len) ELSE v

RECURSIVE process_chunks(_, _, _, _)
\* The while loop over the chunks; ok is FALSE once process has failed.
process_chunks(mono_len, input_pos, output, rubato) ==
  IF input_pos >= mono_len THEN [ok |-> TRUE, output |-> output.output,
                                 chunks |-> output.chunks]
  ELSE IF ~rubato.process
  THEN [ok |-> FALSE, output |-> output.output, chunks |-> output.chunks + 1]
  ELSE process_chunks(mono_len, input_pos + chunk_size,
                      [output |-> output.output
                                    \o [i \in 1 .. rubato.frames |-> rubato.value],
                       chunks |-> output.chunks + 1],
                      rubato)

\* A rate check with both limits of the ratio.
rate_rejected_both_limits(rate) ==
  IF TARGET_RATE > 8 * rate THEN "too low"
  ELSE IF 8 * TARGET_RATE < rate THEN "too high"
  ELSE "accepted"

\* if resample_ratio > 8.0 { return Err(..) }
rate_rejected(rate) ==
  IF TARGET_RATE > 8 * rate THEN "too low" ELSE "accepted"

\* convert_audio_rust, step 3.
resample(mono_samples, rate, rubato) ==
  LET expected == expected_output_len(Len(mono_samples), rate)
      done == process_chunks(Len(mono_samples), 0,
                             [output |-> <<>>, chunks |-> 0], rubato)
  IN IF rate = TARGET_RATE
     THEN [ok |-> TRUE, samples |-> mono_samples, resampler |-> "none", chunks |-> 0]
     ELSE IF rate_rejected(rate) # "accepted"
     THEN [ok |-> FALSE, message |-> "Sample rate is too low (minimum 2000 Hz)",
           resampler |-> "none", chunks |-> 0]
     ELSE IF ~rubato.new
     THEN [ok |-> FALSE, message |-> "Failed to create resampler",
           resampler |-> "failed", chunks |-> 0]
     ELSE IF ~done.ok
     THEN [ok |-> FALSE, message |-> "Resampling failed",
           resampler |-> "created", chunks |-> done.chunks]
     ELSE [ok |-> TRUE, samples |-> truncate(done.output, expected),
           resampler |-> "created", chunks |-> done.chunks]

\* sample.max(-1.0).min(1.0)
clamp(sample) == IF sample < -ONE THEN -ONE ELSE IF sample > ONE THEN ONE ELSE sample

\* (clamped * 32767.0) as i16: the product, truncated toward zero.
to_pcm(sample) ==
  LET size == abs(clamp(sample))
      sixths == (size \div 6) * PCM_SCALE + ((size % 6) * PCM_SCALE) \div 6
  IN IF clamp(sample) < 0 THEN -(sixths \div I16_SCALE) ELSE sixths \div I16_SCALE

CanonicalFormat == [sample_format |-> "Int", bits_per_sample |-> 16]

\* convert_audio_rust, step 5: the WAV written into the memory buffer.
write_wav(pcm_samples) == Wav(CanonicalFormat, 1, TARGET_RATE, pcm_samples, TRUE, FALSE)

\* convert_audio_rust: the result, with the mono and resampled samples and
\* the use made of the resampler on the way.
convert_audio_rust(bytes, rubato) ==
  LET read == read_samples_f32(bytes)
      mono_samples == to_mono(read.samples, bytes.channels)
      resampled == resample(mono_samples, bytes.sample_rate, rubato)
      failed(message) == [result |-> AudioReadError(message), mono |-> <<>>,
                          resampled |-> <<>>, resampler |-> "none", chunks |-> 0]
  IN IF ~WavReader_new(bytes) THEN failed("Failed to parse WAV file")
     ELSE IF ~read.ok THEN failed(read.message)
     ELSE IF ~resampled.ok
     THEN [result |-> AudioReadError(resampled.message), mono |-> mono_samples,
           resampled |-> <<>>, resampler |-> resampled.resampler,
           chunks |-> resampled.chunks]
     ELSE [result |-> OkBytes(write_wav([i \in DOMAIN resampled.samples |->
                                           to_pcm(resampled.samples[i])])),
           mono |-> mono_samples, resampled |-> resampled.samples,
           resampler |-> resampled.resampler, chunks |-> resampled.chunks]

\* The two commands that normalize their input: transcribe_audio_whisper
\* (transcription) and transcribe_with_whisper_cpp (whisper_cpp).
Modules == {"transcription", "whisper_cpp"}

NoWork == [result |-> [ok |-> TRUE], mono |-> <<>>, resampled |-> <<>>,
           resampler |-> "none", chunks |-> 0]
NoResult == [ok |-> TRUE, bytes |-> NotWav("none")]
NoReturn == [ok |-> TRUE, text |-> "none"]

\* A command has been called with some bytes; nothing has run yet.
Called(module) ==
  [pc |-> "format check", module |-> module, tiers |-> <<>>, work |-> NoWork,
   tool |-> "none", wav_data |-> NoResult, samples |-> <<>>, engine |-> "not loaded",
   ret |-> NoReturn]

NormalizerInit ==
  /\ RecorderInit
  /\ WriterAtRest
  /\ FunctionAtRest
  /\ ManagerInit
  /\ FileAtRest
  /\ EngineAtRest
  /\ audio_data \in AudioInputs
  /\ \E module \in Modules : transcription = Called(module)

outside_transcription == <<recorder_vars, writer_vars, function_vars, manager_vars,
                          file_vars, engine_vars>>

\* The conversion returned Ok(bytes): the command goes on to the samples.
converted(tier, bytes) ==
  [transcription EXCEPT !.pc = "extract samples", !.tiers = Append(@, tier),
                        !.wav_data = OkBytes(bytes)]

\* The conversion returned Err(error) and the command went on regardless.
conversion_failed_ignored(tier, error) ==
  [transcription EXCEPT !.pc = "load engine", !.tiers = Append(@, tier),
                        !.wav_data = error]

\* The conversion returned Err(error), which `?` returns from the command.
conversion_failed(tier, error) ==
  [transcription EXCEPT !.pc = "returned", !.tiers = Append(@, tier),
                        !.wav_data = error, !.ret = error]

\* A failure of tier 2 returned to the caller.
tier2_failed_returning(work) ==
  [conversion_failed("in-process", work.result) EXCEPT !.work = work]

\* Err(e) of tier 2: logged, and the function goes on to tier 3.
tier2_failed(work) ==
  [transcription EXCEPT !.pc = "external tool", !.tiers = Append(@, "in-process"),
                        !.work = work]

\* convert_audio_for_whisper, tier 1: if is_valid_wav_format(&audio_data)
\* { return Ok(audio_data) }.  The whisper_cpp normalizer has no tier 2.
tier1_format_check ==
  /\ transcription.pc = "format check"
  /\ transcription' =
       IF is_valid_wav_format(audio_data)
       THEN converted("pass-through", audio_data)
       ELSE [transcription EXCEPT
               !.pc = IF transcription.module = "transcription"
                      THEN "in-process" ELSE "external tool",
               !.tiers = Append(@, "pass-through")]
  /\ UNCHANGED <<audio_data, outside_transcription>>

\* One behaviour of the library where it is used, none where it is not.
RubatoUsed(bytes) ==
  IF WavReader_new(bytes) /\ read_samples_f32(bytes).ok
     /\ bytes.sample_rate # TARGET_RATE /\ rate_rejected(bytes.sample_rate) = "accepted"
  THEN Rubato
  ELSE {[new |-> TRUE, process |-> TRUE, frames |-> 0, value |-> 0]}

\* convert_audio_for_whisper, tier 2: match convert_audio_rust(audio_data.clone()).
tier2_convert_audio_rust ==
  /\ transcription.pc = "in-process"
  /\ \E rubato \in RubatoUsed(audio_data) :
       LET work == convert_audio_rust(audio_data, rubato)
       IN transcription' =
            IF work.result.ok
            THEN [converted("in-process", work.result.bytes) EXCEPT !.work = work]
            ELSE tier2_failed(work)
  /\ UNCHANGED <<audio_data, outside_transcription>>

\* What can happen in tier 3.  The tool converts audio it can decode.
ToolOutcomes(bytes) ==
  {"temp file failed", "write failed", "output file failed", "not found",
   "spawn failed", "exit failure", "read failed"}
    \cup (IF bytes.container = "garbage" THEN {} ELSE {"converted"})

\* What the tool writes when it exits with success: -ar 16000 -ac 1
\* -c:a pcm_s16le into the .wav output file.
ToolOutput == {Wav(CanonicalFormat, 1, TARGET_RATE, samples, TRUE, TRUE) :
                 samples \in {<<>>, <<PCM_SCALE \div 2>>}}

\* The error a failure of tier 3 is turned into, one variant for all.
tool_error_generic(module, outcome) ==
  AudioReadError(IF outcome = "not found" THEN "Failed to run ffmpeg" ELSE outcome)

\* The error a failure of tier 3 is turned into.
tool_error(module, outcome) ==
  IF outcome = "not found" /\ module = "transcription"
  THEN FfmpegNotFoundError("FFmpeg is not installed")
  ELSE IF outcome = "not found" THEN AudioReadError("Failed to run ffmpeg")
  ELSE AudioReadError(outcome)

\* convert_audio_for_whisper, tier 3: temp files, ffmpeg, read the output.
tier3_ffmpeg ==
  /\ transcription.pc = "external tool"
  /\ \E outcome \in ToolOutcomes(audio_data), output \in ToolOutput :
       transcription' =
         [(IF outcome = "converted"
           THEN converted("external tool", output)
           ELSE conversion_failed("external tool",
                                  tool_error(transcription.module, outcome)))
            EXCEPT !.tool = IF outcome \in {"temp file failed", "write failed",
                                            "output file failed"}
                            THEN "not run" ELSE outcome]
  /\ UNCHANGED <<audio_data, outside_transcription>>

\* extract_samples_from_wav and the early return on no samples.
extract_samples_from_wav ==
  /\ transcription.pc = "extract samples"
  /\ LET wav_bytes == transcription.wav_data.bytes
     IN transcription' =
          IF ~WavReader_new(wav_bytes)
          THEN [transcription EXCEPT !.pc = "returned",
                                     !.ret = AudioReadError("Failed to parse WAV")]
          ELSE IF ~wav_bytes.intact
          THEN [transcription EXCEPT !.pc = "returned",
                                     !.ret = AudioReadError("Failed to read samples")]
          ELSE IF wav_bytes.samples = <<>>
          THEN [transcription EXCEPT !.pc = "returned",
                                     !.ret = [ok |-> TRUE, text |-> ""]]
          ELSE [transcription EXCEPT
                  !.pc = "load engine",
                  !.samples = [i \in DOMAIN wav_bytes.samples |->
                                 wav_bytes.samples[i] * (ONE \div I16_SCALE)]]
  /\ UNCHANGED <<audio_data, outside_transcription>>

\* model_manager.get_or_load_whisper / load_whisper_model
load_engine ==
  /\ transcription.pc = "load engine"
  /\ \E loaded \in BOOLEAN :
       transcription' =
         IF loaded
         THEN [transcription EXCEPT !.pc = "transcribe", !.engine = "loaded"]
         ELSE [transcription EXCEPT !.pc = "returned", !.engine = "failed",
                                    !.ret = ModelLoadError("Failed to load model")]
  /\ UNCHANGED <<audio_data, outside_transcription>>

\* transcribe_samples / state.full, and the text returned.
transcribe_samples ==
  /\ transcription.pc = "transcribe"
  /\ \E done \in BOOLEAN :
       transcription' =
         [transcription EXCEPT
            !.pc = "returned",
            !.ret = IF done THEN [ok |-> TRUE, text |-> "text"]
                    ELSE TranscriptionError("transcription failed")]
  /\ UNCHANGED <<audio_data, outside_transcription>>

NormalizerNext ==
  \/ tier1_format_check
  \/ tier2_convert_audio_rust
  \/ tier3_ffmpeg
  \/ extract_samples_from_wav
  \/ load_engine
  \/ transcribe_samples

NormalizerSpec == NormalizerInit /\ [][NormalizerNext]_vars

----------------------------------------------------------------------------
\* Bytes that are a mono, 16000 Hz, 16-bit integer PCM WAV.
Canonical(bytes) ==
  /\ bytes.container = "wav"
  /\ bytes.sample_format = "Int"
  /\ bytes.bits_per_sample = 16
  /\ bytes.channels = 1
  /\ bytes.sample_rate = 16000

\* C22: input that is already mono, 16000 Hz, 16-bit integer PCM WAV is
\* returned byte-identical, and neither the in-process conversion nor the
\* external tool is invoked for it.
C22_PassThrough ==
  (Canonical(audio_data) /\ transcription.pc # "format check")
    => /\ transcription.wav_data = [ok |-> TRUE, bytes |-> audio_data]
       /\ transcription.tiers = <<"pass-through">>
       /\ transcription.work = NoWork
       /\ transcription.tool = "none"

\* A canonical file with other chunks and samples has been passed through by
\* the transcription module, and its samples extracted.
C22_Witness ==
  /\ Canonical(audio_data)
  /\ audio_data.extra_chunks
  /\ Len(audio_data.samples) = 2
  /\ transcription.module = "transcription"
  /\ transcription.pc = "load engine"
  /\ transcription.wav_data.bytes = audio_data

Ran(tier) == \E i \in DOMAIN transcription.tiers : transcription.tiers[i] = tier

Last(v) == v[Len(v)]

\* C23: the tiers are attempted strictly in order: in-process conversion only
\* when the pass-through check does not apply, the external tool only when
\* in-process conversion returned an error; a tier's success is returned at
\* once; an error of the conversion always comes from the external-tool tier.
C23_TiersInOrder ==
  /\ transcription.tiers
       \in IF transcription.module = "transcription"
           THEN {<<>>, <<"pass-through">>, <<"pass-through", "in-process">>,
                 <<"pass-through", "in-process", "external tool">>}
           ELSE {<<>>, <<"pass-through">>, <<"pass-through", "external tool">>}
  /\ Ran("in-process") => ~Canonical(audio_data)
  /\ Ran("external tool")
       => /\ ~Canonical(audio_data)
          /\ transcription.module = "transcription"
               => /\ ~transcription.work.result.ok
                  /\ transcription.work.result.name = "AudioReadError"
  /\ ~Ran("in-process") => transcription.work = NoWork
  /\ ~Ran("external tool") => transcription.tool = "none"
  /\ transcription.pc \notin {"format check", "in-process", "external tool"}
       => IF transcription.wav_data.ok
          THEN \/ Last(transcription.tiers) = "pass-through"
                    /\ transcription.wav_data.bytes = audio_data
               \/ Last(transcription.tiers) = "in-process"
                    /\ transcription.wav_data = transcription.work.result
               \/ Last(transcription.tiers) = "external tool"
                    /\ transcription.tool = "converted"
          ELSE /\ Last(transcription.tiers) = "external tool"
               /\ transcription.tool \notin {"none", "converted"}
               /\ transcription.ret = transcription.wav_data

\* All three tiers ran: the in-process conversion failed on a 24-bit file and
\* the external tool converted it.
C23_Witness ==
  /\ transcription.tiers = <<"pass-through", "in-process", "external tool">>
  /\ audio_data.container = "wav"
  /\ audio_data.bits_per_sample = 24
  /\ transcription.work.result.message = "Unsupported bit depth"
  /\ transcription.tool = "converted"
  /\ transcription.wav_data.ok

----------------------------------------------------------------------------
\* Tier 2 ran and got as far as the decoded samples.
Decoded ==
  /\ Ran("in-process")
  /\ audio_data.container = "wav"
  /\ audio_data.intact
  /\ audio_data.sample_format = "Int" => audio_data.bits_per_sample \in {16, 32}

\* 16000 / source_rate is greater than 8 or less than 1/8.
RatioOutOfRange ==
  \/ 16000 > 8 * audio_data.sample_rate
  \/ 8 * 16000 < audio_data.sample_rate

\* C24: in-process conversion rejects the input before creating the resampler
\* or processing any chunk whenever 16000 / source_rate is greater than 8 or
\* less than 1/8.
C24_RatioRejected ==
  (Decoded /\ RatioOutOfRange)
    => /\ ~transcription.work.result.ok
       /\ transcription.work.resampler = "none"
       /\ transcription.work.chunks = 0

\* round(len * 16000 / rate), halves away from zero.
Rounded(len, rate) ==
  CHOOSE n \in 0 .. (8 * len + 1) :
    /\ 2 * n * rate - rate <= 2 * len * 16000
    /\ 2 * len * 16000 < 2 * n * rate + rate

\* C28: for a source rate other than 16000 Hz the resampled sequence has at
\* most round(input_length * 16000 / source_rate) samples, input_length being
\* the mono frame count; for 16000 Hz resampling is skipped and the mono
\* samples pass through unchanged.
C28_ResampledLength ==
  (Decoded /\ transcription.work.result.ok)
    => IF audio_data.sample_rate = 16000
       THEN /\ transcription.work.resampled = transcription.work.mono
            /\ transcription.work.resampler = "none"
       ELSE /\ Len(transcription.work.resampled)
                 <= Rounded(Len(transcription.work.mono), audio_data.sample_rate)
            /\ Len(transcription.work.mono) > 0
                 => transcription.work.resampler = "created"

\* Three mono frames at 44100 Hz went through one chunk and came out as one
\* sample, round(3 * 16000 / 44100).
C28_Witness ==
  /\ Decoded
  /\ audio_data.sample_rate = 44100
  /\ Len(transcription.work.mono) = 3
  /\ transcription.work.chunks = 1
  /\ Len(transcription.work.resampled) = 1
  /\ transcription.work.result.ok

\* The sum of the samples of frame k of an interleaved buffer.
FrameTotal(buffer, k, c) ==
  IF c = 2 THEN buffer[2 * k - 1] + buffer[2 * k]
  ELSE buffer[3 * k - 2] + buffer[3 * k - 1] + buffer[3 * k]

\* C29: the downmix of an interleaved C-channel buffer, C > 1, has one sample
\* per complete frame, the arithmetic mean of the frame's C samples; it has
\* floor(samples / C) frames; a mono input is passed through unchanged.
C29_Downmix ==
  Decoded
    => LET buffer == read_samples_f32(audio_data).samples
           c == audio_data.channels
           mono == transcription.work.mono
       IN IF c = 1 THEN mono = buffer
          ELSE /\ Len(mono) = Len(buffer) \div c
               /\ \A k \in DOMAIN mono : c * mono[k] = FrameTotal(buffer, k, c)

\* A stereo buffer of three samples, the first two different, became one
\* frame.
C29_Witness ==
  /\ Decoded
  /\ audio_data.channels = 2
  /\ Len(audio_data.samples) = 3
  /\ audio_data.samples[1] # audio_data.samples[2]
  /\ Len(transcription.work.mono) = 1

----------------------------------------------------------------------------
\* The normalizer has returned Ok(bytes).
NormalizerSucceeded ==
  /\ transcription.tiers # <<>>
  /\ transcription.wav_data.ok
  /\ transcription.wav_data.bytes.container # "none"

\* C25: whenever the normalizer returns success, the returned bytes are a
\* mono, 16000 Hz, 16-bit integer PCM WAV container, whichever tier produced
\* them, and the samples extracted from them are those of that one channel,
\* each in [-1, 1).
C25_OutputCanonical ==
  NormalizerSucceeded
    => /\ Canonical(transcription.wav_data.bytes)
       /\ transcription.pc \in {"load engine", "transcribe"}
            => /\ Len(transcription.samples) = Len(transcription.wav_data.bytes.samples)
               /\ \A i \in DOMAIN transcription.samples :
                    /\ -ONE <= transcription.samples[i]
                    /\ transcription.samples[i] < ONE

\* Stereo 2000 Hz input came out of the in-process tier as canonical bytes
\* whose samples have been extracted.
C25_Witness ==
  /\ NormalizerSucceeded
  /\ audio_data.container = "wav"
  /\ audio_data.channels = 2
  /\ audio_data.sample_rate = 2000
  /\ Last(transcription.tiers) = "in-process"
  /\ transcription.pc = "load engine"
  /\ transcription.samples # <<>>

\* The errors of the failures of tier 3 other than a missing tool.
OtherToolErrors(module) ==
  {tool_error(module, outcome).name :
     outcome \in {"temp file failed", "write failed", "output file failed",
                  "spawn failed", "exit failure", "read failed"}}

\* C26: when the external conversion tool cannot be found, the normalizer
\* fails with a dedicated tool-missing error, different from the error of any
\* other I/O or conversion failure, in the transcription and in the
\* whisper_cpp normalizer.
C26_ToolMissingDistinct ==
  (transcription.pc = "returned" /\ transcription.tool = "not found")
    => /\ ~transcription.ret.ok
       /\ transcription.ret.name \notin OtherToolErrors(transcription.module)

\* The command has returned for input that no decoder can parse.
MalformedReturned ==
  /\ audio_data.container = "garbage"
  /\ transcription.pc = "returned"

\* C27 as amended: for input bytes that are not a parseable audio container
\* the caller receives an audio-read error or, when the external tool cannot
\* be found, the tool-missing error; never a model-load, GPU or transcription
\* error; and the engine is not loaded for that request.
C27_MalformedInput ==
  audio_data.container = "garbage"
    => /\ transcription.engine = "not loaded"
       /\ transcription.pc \notin {"load engine", "transcribe"}
       /\ transcription.pc = "returned"
            => /\ ~transcription.ret.ok
               /\ transcription.ret.name \in {"AudioReadError", "FfmpegNotFoundError"}
               /\ transcription.ret.name = "FfmpegNotFoundError"
                    => transcription.tool = "not found"

\* Malformed input went through all three tiers and the tool's failure was
\* returned.
C27_Witness ==
  /\ MalformedReturned
  /\ transcription.tiers = <<"pass-through", "in-process", "external tool">>
  /\ transcription.tool = "exit failure"
  /\ transcription.ret.name = "AudioReadError"

\* C27 as stated: the failure received for input that is not a parseable
\* audio container is an audio-read error.
C27_AudioReadErrorOnly ==
  MalformedReturned
    => /\ ~transcription.ret.ok
       /\ transcription.ret.name = "AudioReadError"
       /\ transcription.engine = "not loaded"

----------------------------------------------------------------------------
\* The stream of session s exists: create_stream returned Ok in its thread and
\* drop(stream) has not run.
StreamLive(s) == thread[s] = "parked"

\* C30: the live stream object is created, kept alive and dropped only by the
\* thread spawned in StreamHolder::new: it comes into being in a step of that
\* thread running the construction closure, it ceases to be in a step of that
\* thread, after which the thread has finished, and no step of the caller or
\* of the callback creates or drops it.
C30_StreamOnItsThread ==
  [][\A s \in Sessions :
       (StreamLive(s)' # StreamLive(s))
         => /\ UNCHANGED <<recorder_fields, pc, op, joining, args, ret, next_session>>
            /\ UNCHANGED cb
            /\ cb[s] = "idle"
            /\ StreamLive(s)' => thread[s] = "creating"
            /\ StreamLive(s) => thread'[s] = "stopped" /\ should_stop[s]]_vars

\* The thread of a session has dropped its stream and finished while the
\* caller is still blocked in join.
C30_Witness ==
  \E s \in Sessions :
    /\ thread[s] = "stopped"
    /\ joining = s
    /\ pc = "close_join"

----------------------------------------------------------------------------
\* C31: once stop_recording has returned, the file receives no further
\* samples until start_recording is called again, even when a callback that
\* read the armed flag as true is still in flight: the header data size
\* written by stop equals the payload bytes in the file and the returned
\* duration covers every sample in the file.
C31_StopCoversFile ==
  (/\ pc = "ready"
   /\ ret.op = "stop_recording"
   /\ ret.ok
   /\ writer # 0)
    => /\ wav[writer].data_size
            = as_u32(mul_u64(u64(wav[writer].payload), bytes_per_sample))
       /\ ret.duration.num = wav[writer].payload

----------------------------------------------------------------------------
\* The worker takes a GetDevice command for a name that is not the default
\* and whose cache entry was checked more than five seconds ago.
GetsStale(name) ==
  /\ receiver # <<>>
  /\ receiver' = Tail(receiver)
  /\ Head(receiver).cmd = "GetDevice"
  /\ Head(receiver).name = name
  /\ device_cache[name].cached
  /\ device_cache[name].last_checked > stale_after_secs

\* C32: when get_device is called for a non-default name whose cache entry is
\* stale, that single device is re-probed and no cache-wide rescan is made,
\* for every stale entry, including one whose availability flag is false.
C32_StaleEntryReprobed ==
  [][\A name \in DeviceNames :
       GetsStale(name)
         => /\ device_cache'[name].cached
            /\ device_cache'[name].last_checked = 0
            /\ worker_did'.host_calls # <<>>
            /\ \A d \in DeviceNames \ {name} : device_cache'[d] = device_cache[d]
            /\ last_full_refresh' = last_full_refresh]_vars

----------------------------------------------------------------------------
\* init_session returns an error in this step.
InitSessionFails ==
  /\ pc = "init_body"
  /\ pc' = "ready"
  /\ ret'.op = "init_session"
  /\ ~ret'.ok

\* C36: if init_session fails at device resolution, at configuration
\* selection or at file creation, the recorder is left Idle: the previous
\* session has been torn down and is not restored, no stream thread is
\* spawned, start_recording fails, and for resolution and configuration
\* failures no output file is created.
C36_FailedInitLeavesIdle ==
  [][/\ InitSessionFails
          => /\ stream_holder' = 0
             /\ writer' = 0
             /\ file_path' = None
             /\ \A s \in Sessions : ~ThreadAlive(s)' /\ ~armed'[s]
             /\ thread' = thread
             /\ next_session' = next_session
             /\ ret'.err \in {"Device not found", "No supported input configurations"}
                  => fs' = fs /\ wav' = wav
     /\ (/\ pc = "ready" /\ ret.op = "init_session" /\ ~ret.ok
         /\ ret'.op = "start_recording")
          => /\ ~ret'.ok
             /\ UNCHANGED session_state]_vars

\* init_session has failed on a device without supported configurations
\* after an earlier session had recorded samples.
C36_Witness ==
  /\ pc = "ready"
  /\ ret.op = "init_session"
  /\ ret.err = "No supported input configurations"
  /\ stream_holder = 0
  /\ \E s \in Sessions : thread[s] = "joined" /\ wav[s].payload > 0

----------------------------------------------------------------------------
\* The worker can take the next command.
WorkerCanRun == ENABLED (run_EnumerateDevices \/ run_GetDevice \/ run_RefreshCache)

\* C37: the worker handles requests one at a time in the order they were
\* sent and sends each reply on the channel created for that request: a reply
\* produced after its caller timed out is discarded, is never delivered to a
\* later request, and the worker goes on serving whatever is queued.
C37_SerialOwnChannel ==
  [][/\ \A i \in DOMAIN receiver' :
          /\ i > 1 => receiver'[i - 1].id < receiver'[i].id
          /\ worker_did'.id < receiver'[i].id
     /\ receiver' # <<>> => WorkerCanRun'
     /\ worker_did' # worker_did
          => /\ receiver # <<>>
             /\ receiver' = Tail(receiver)
             /\ worker_did'.id = Head(receiver).id
             /\ worker_did'.cmd = Head(receiver).cmd
             /\ IF response.for = Head(receiver).id /\ worker_did'.cmd # "RefreshCache"
                THEN response'.msgs = <<[for |-> response.for,
                                         result |-> worker_did'.reply]>>
                ELSE response' = response
     /\ \A i \in DOMAIN response'.msgs :
          /\ response'.msgs[i].for = response'.for
          /\ response'.for = waiting'.id
     /\ (manager_ret' # manager_ret /\ ~TimedOut(manager_ret'.result) /\ waiting # NotWaiting)
          => /\ response.msgs # <<>>
             /\ Head(response.msgs).for = manager_ret'.id
             /\ manager_ret'.result = Head(response.msgs).result]_vars

\* The caller of request 1 timed out, the caller of request 2 is waiting, and
\* the worker has meanwhile served request 1: its reply went nowhere, and
\* request 2 is next.
C37_Witness ==
  /\ manager_ret.id = 1
  /\ TimedOut(manager_ret.result)
  /\ waiting.id = 2
  /\ worker_did.id = 1
  /\ worker_did.reply.ok
  /\ worker_did.reply.value # <<>>
  /\ response = [for |-> 2, msgs |-> <<>>]
  /\ Len(receiver) = 1
  /\ WorkerCanRun

----------------------------------------------------------------------------
\* WavWriter and the bytes of its file.  The file is a sequence of 4-byte
\* words: eleven header words, then one word per sample.

MaxFileSamples == 3

i16_MAX == 32767
u16_MAX == 65535
header_update_secs == 1

\* A word of the file: four bytes of text, a u32 or two u16 as <<high, low>>
\* halves, or one f32 sample kept as the exact quotient a / b.
Word(kind, a, b) == [kind |-> kind, a |-> a, b |-> b]
Text(text) == Word(text, 0, 0)
Size(u32) == Word("u32", u32[1], u32[2])

riff_chunk_size_pos == 1
data_chunk_size_pos == 10

\* WavWriter::new: the header as written, both size fields at the placeholder,
\* the write position behind it.
WavWriter_new(rate, ch) ==
  [open |-> TRUE,
   words |-> <<Text("RIFF"), Size(PLACEHOLDER), Text("WAVE"), Text("fmt "),
               Word("u32", 0, 16), Word("u16 u16", 3, ch), Word("u32", 0, rate),
               Size(as_u32(u64(rate * ch * bytes_per_sample))),
               Word("u16 u16", ch * bytes_per_sample, bits_per_sample),
               Text("data"), Size(PLACEHOLDER)>>,
   pos |-> 11, samples_written |-> 0, last_header_update |-> 0,
   sample_rate |-> rate, channels |-> ch]

\* self.writer.seek(SeekFrom::Start(p)), positions counted in words.
seek(w, p) == [w EXCEPT !.pos = p]

\* self.writer.write_all(four bytes): they replace what the file holds at the
\* write position, or extend the file when the position is its end.
write_all(w, word) ==
  [w EXCEPT !.words = IF w.pos < Len(@) THEN [@ EXCEPT ![w.pos + 1] = word]
                      ELSE Append(@, word),
            !.pos = @ + 1]

\* update_headers that leaves the write position behind the data size field.
update_headers_in_place(w, io) ==
  LET data_size == mul_u64(u64(w.samples_written), bytes_per_sample)
      file_size == add_u64(RIFF_OVERHEAD, data_size)
      riff == write_all(seek(w, riff_chunk_size_pos), Size(as_u32(file_size)))
  IN  CASE io = "ok" -> write_all(seek(riff, data_chunk_size_pos), Size(as_u32(data_size)))
        [] io = "failed_after_riff" -> riff
        [] OTHER -> w

\* WavWriter::update_headers on the file's words.  When the seek to the data
\* size field fails after the RIFF size has reached the file, `?` returns with
\* the write position where that left it.
update_headers_in_file(w, io) ==
  LET current_pos == w.pos
      data_size == mul_u64(u64(w.samples_written), bytes_per_sample)
      file_size == add_u64(RIFF_OVERHEAD, data_size)
      riff == write_all(seek(w, riff_chunk_size_pos), Size(as_u32(file_size)))
  IN  CASE io = "ok" ->
             seek(write_all(seek(riff, data_chunk_size_pos), Size(as_u32(data_size))),
                  current_pos)
        [] io = "failed_after_riff" -> riff
        [] OTHER -> w

\* write_samples_f32: the sample as it is; write_samples_i16: sample as f32 /
\* i16::MAX as f32; write_samples_u16: (sample as f32 / u16::MAX as f32) * 2.0 - 1.0.
f32_sample(value) == Word("f32", value[1], value[2])
i16_to_f32(sample) == Word("f32", sample, i16_MAX)
u16_to_f32(sample) == Word("f32", 2 * sample - u16_MAX, u16_MAX)

to_f32(method, sample) ==
  CASE method = "write_samples_f32" -> f32_sample(sample)
    [] method = "write_samples_i16" -> i16_to_f32(sample)
    [] method = "write_samples_u16" -> u16_to_f32(sample)

\* for sample in samples { self.writer.write_all(&f32_sample.to_le_bytes())? }
RECURSIVE write_each(_, _, _)
write_each(w, method, samples) ==
  IF samples = <<>> THEN w
  ELSE write_each(write_all(w, to_f32(method, Head(samples))), method, Tail(samples))

\* The periodic test reading the time since the file was created.
header_update_due_since_new(w, since_new) == since_new >= header_update_secs

\* self.last_header_update.elapsed().as_secs() >= 1
header_update_due(w, since_new) == w.last_header_update >= header_update_secs

\* WavWriter::write_samples_f32 / _i16 / _u16 on the file's words.
write_samples_in_file(w, method, samples, io) ==
  LET written == [write_each(w, method, samples) EXCEPT
                    !.samples_written = @ + Len(samples)]
  IN  IF header_update_due(written, file_calls.since_new)
      THEN [w |-> IF io = "ok"
                  THEN [update_headers_in_file(written, io) EXCEPT !.last_header_update = 0]
                  ELSE update_headers_in_file(written, io),
            update |-> io]
      ELSE [w |-> written, update |-> "none"]

\* What the three methods are given: one sample, or two different ones.
Slices(method) ==
  CASE method = "write_samples_f32" -> {<<(<<1, 2>>)>>, <<(<<1, 2>>), (<<-1, 4>>)>>}
    [] method = "write_samples_i16" -> {<<-32768>>, <<0, 32767>>}
    [] method = "write_samples_u16" -> {<<65535>>, <<65535, 0>>}

Methods == {"write_samples_f32", "write_samples_i16", "write_samples_u16"}

\* WavWriter::new has returned Ok.
FileInit ==
  /\ RecorderInit
  /\ WriterAtRest
  /\ FunctionAtRest
  /\ ManagerInit
  /\ TranscriptionAtRest
  /\ EngineAtRest
  /\ recording = WavWriter_new(48000, 2)
  /\ file_calls = [last |-> "new", ok |-> TRUE, input |-> <<>>, update |-> "none",
                   since_rewrite |-> 0, since_periodic |-> 0, since_new |-> 0,
                   failed |-> FALSE]

outside_file == <<recorder_vars, writer_vars, function_vars, manager_vars,
                  transcription_vars, engine_vars>>

\* One call of a write method; Err is returned only by the header rewrite.
write_samples_call ==
  /\ recording.samples_written < MaxFileSamples
  /\ \E method \in Methods :
       \E samples \in Slices(method), io \in IoOutcomes :
         LET done == write_samples_in_file(recording, method, samples, io)
         IN  /\ recording.samples_written + Len(samples) <= MaxFileSamples
             /\ recording' = done.w
             /\ file_calls' = [file_calls EXCEPT
                                 !.last = method, !.ok = done.update \in {"none", "ok"},
                                 !.input = samples, !.update = done.update,
                                 !.since_rewrite = IF done.update = "ok" THEN 0 ELSE @,
                                 !.since_periodic = IF done.update = "ok" THEN 0 ELSE @,
                                 !.failed = @ \/ done.update \notin {"none", "ok"}]
  /\ UNCHANGED outside_file

\* WavWriter::finalize on the file's words: update_headers, then flush.
finalize_call ==
  /\ \E io \in IoOutcomes :
       /\ recording' = update_headers_in_file(recording, io)
       /\ file_calls' = [file_calls EXCEPT
                           !.last = "finalize", !.ok = io = "ok", !.input = <<>>,
                           !.update = io,
                           !.since_rewrite = IF io = "ok" THEN 0 ELSE @,
                           !.failed = @ \/ io # "ok"]
  /\ UNCHANGED outside_file

\* A second goes by: every elapsed time that was below one second is now one
\* second or more.
second_passes ==
  /\ recording.last_header_update < header_update_secs
       \/ file_calls.since_rewrite < header_update_secs
       \/ file_calls.since_new < header_update_secs
  /\ recording' = [recording EXCEPT !.last_header_update = header_update_secs]
  /\ file_calls' = [file_calls EXCEPT !.since_rewrite = header_update_secs,
                                      !.since_periodic = header_update_secs,
                                      !.since_new = header_update_secs]
  /\ UNCHANGED outside_file

FileNext ==
  \/ write_samples_call
  \/ finalize_call
  \/ second_passes

FileSpec == FileInit /\ [][FileNext]_vars

----------------------------------------------------------------------------
\* The words of the header other than the two size fields, and the samples.
Unchanging(words) == DOMAIN words \ {riff_chunk_size_pos + 1, data_chunk_size_pos + 1}

\* The size fields hold 36 + 4 n and 4 n for n samples.
SizesFor(words, n) ==
  /\ words[riff_chunk_size_pos + 1] = Word("u32", 0, 36 + 4 * n)
  /\ words[data_chunk_size_pos + 1] = Word("u32", 0, 4 * n)

C35_NormalizedRange ==
  [][write_samples_call
       => \A k \in DOMAIN file_calls'.input :
            LET word == recording'.words[recording.pos + k]
                sample == file_calls'.input[k]
            IN  /\ word.kind = "f32"
                /\ file_calls'.last = "write_samples_i16"
                     => word.a * 32768 = sample * word.b
                /\ file_calls'.last = "write_samples_u16"
                     => word.a = 2 * sample - 65535 /\ word.b = 65535
                /\ file_calls'.last # "write_samples_f32"
                     => -word.b <= word.a /\ word.a <= word.b]_vars

\* ---------------------------------------------------------------------------
\* The ModelManager and the transcription commands that use it
\* (transcription/model_manager.rs, transcription/mod.rs 423-536).  Tauri runs
\* the async commands on a thread pool, so the calls of several commands
\* interleave wherever no lock is held.
\* ---------------------------------------------------------------------------
MaxCommands == 2
idle_timeout == 300
ModelPaths == {"p", "q"}
EngineKinds == {"Whisper", "Parakeet"}

NoEngine == [is_some |-> FALSE, kind |-> "none", path |-> "none"]
SomeEngine(kind, path) == [is_some |-> TRUE, kind |-> kind, path |-> path]
NoPath == [is_some |-> FALSE, path |-> "none"]
SomePath(path) == [is_some |-> TRUE, path |-> path]
NoCommand == [pc |-> "idle", kind |-> "none", path |-> "none"]

\* The match of get_or_load_* on (engine, current_model_path): an empty slot, a
\* different path, or an engine of the other kind need a load.
needs_load(kind, model_path) ==
  IF ~engine.is_some THEN TRUE
  ELSE IF current_model_path.is_some /\ current_model_path.path # model_path THEN TRUE
  ELSE IF engine.kind # kind THEN TRUE
  ELSE FALSE

\* get_or_load_whisper and get_or_load_parakeet, which differ in the engine
\* kind only.  Both locks are held from the first line to the return.  The
\* slot is taken before the new engine is loaded, and a load error returns
\* through `?` before the slot, the path and last_activity are assigned.
get_or_load(kind, model_path, loads) ==
  IF ~needs_load(kind, model_path)
  THEN [engine |-> engine, current_model_path |-> current_model_path,
        last_activity |-> 0, ok |-> TRUE]
  ELSE IF loads
  THEN [engine |-> SomeEngine(kind, model_path),
        current_model_path |-> SomePath(model_path),
        last_activity |-> 0, ok |-> TRUE]
  ELSE [engine |-> NoEngine, current_model_path |-> current_model_path,
        last_activity |-> last_activity, ok |-> FALSE]

get_or_load_whisper(model_path, loads) == get_or_load("Whisper", model_path, loads)
get_or_load_parakeet(model_path, loads) == get_or_load("Parakeet", model_path, loads)

EngineInit ==
  /\ RecorderInit
  /\ WriterAtRest
  /\ FunctionAtRest
  /\ ManagerInit
  /\ TranscriptionAtRest
  /\ FileAtRest
  /\ engine = NoEngine
  /\ current_model_path = NoPath
  /\ last_activity = 0
  /\ commands = [c \in 1..MaxCommands |-> NoCommand]
  /\ unloader = "none"
  /\ model_manager_did = [call |-> "new", command |-> 0, kind |-> "none", path |-> "none",
                          ok |-> TRUE, ran_on |-> NoEngine, requested |-> "none"]

outside_engine == <<recorder_vars, writer_vars, function_vars, manager_vars,
                    transcription_vars, file_vars>>

\* transcribe_audio_whisper / transcribe_audio_parakeet up to the return of
\* get_or_load_*: on Ok the command holds a clone of the Arc of the shared slot,
\* on Err it returns ModelLoadError.
transcribe_audio_get_or_load(c, kind, model_path, loads) ==
  /\ commands[c].pc = "idle"
  /\ LET r == IF kind = "Whisper" THEN get_or_load_whisper(model_path, loads)
                                  ELSE get_or_load_parakeet(model_path, loads)
     IN /\ engine' = r.engine
        /\ current_model_path' = r.current_model_path
        /\ last_activity' = r.last_activity
        /\ commands' = [commands EXCEPT ![c] =
                          IF r.ok THEN [pc |-> "engine_arc", kind |-> kind, path |-> model_path]
                                  ELSE NoCommand]
        /\ model_manager_did' = [call |-> "get_or_load", command |-> c, kind |-> kind,
                                 path |-> model_path, ok |-> r.ok, ran_on |-> NoEngine,
                                 requested |-> kind]
  /\ UNCHANGED <<unloader, outside_engine>>

\* The rest of the command: it locks the slot it holds, fails when the slot is
\* empty or holds an engine of the other kind, and otherwise transcribes on
\* whatever engine the slot holds now.  The manager's state is left alone.
transcribe_audio_run(c) ==
  /\ commands[c].pc = "engine_arc"
  /\ commands' = [commands EXCEPT ![c] = NoCommand]
  /\ model_manager_did' =
       [model_manager_did EXCEPT !.call = "transcribe", !.command = c,
          !.kind = commands[c].kind, !.path = commands[c].path,
          !.ok = engine.is_some /\ engine.kind = commands[c].kind,
          !.ran_on = IF engine.is_some /\ engine.kind = commands[c].kind
                     THEN engine ELSE NoEngine]
  /\ UNCHANGED <<engine, current_model_path, last_activity, unloader, outside_engine>>

unload_model ==
  /\ engine' = NoEngine
  /\ current_model_path' = NoPath
  /\ model_manager_did' = [model_manager_did EXCEPT !.call = "unload_model",
                             !.command = 0, !.ok = TRUE, !.ran_on = NoEngine]
  /\ UNCHANGED <<last_activity, commands, unloader, outside_engine>>

\* unload_if_idle reads last_activity under its own lock, releases it, and
\* compares the elapsed time with idle_timeout.
unload_if_idle_elapsed ==
  /\ unloader = "none"
  /\ unloader' = IF last_activity > idle_timeout THEN "expired" ELSE "none"
  /\ model_manager_did' = [model_manager_did EXCEPT !.call = "unload_if_idle",
                             !.command = 0, !.ok = last_activity > idle_timeout,
                             !.ran_on = NoEngine]
  /\ UNCHANGED <<engine, current_model_path, last_activity, commands, outside_engine>>

\* ... and then, when the time had expired, locks the slot and clears both.
unload_if_idle_unload ==
  /\ unloader = "expired"
  /\ unloader' = "none"
  /\ engine' = NoEngine
  /\ current_model_path' = NoPath
  /\ model_manager_did' = [model_manager_did EXCEPT !.call = "unload_if_idle_unload",
                             !.command = 0, !.ok = TRUE, !.ran_on = NoEngine]
  /\ UNCHANGED <<last_activity, commands, outside_engine>>

\* Time passes in steps of idle_timeout; more than idle_timeout is kept as
\* idle_timeout + 1.
idle_time_passes ==
  /\ last_activity <= idle_timeout
  /\ last_activity' = IF last_activity + idle_timeout > idle_timeout
                      THEN idle_timeout + 1 ELSE last_activity + idle_timeout
  /\ UNCHANGED <<engine, current_model_path, commands, unloader, model_manager_did,
                 outside_engine>>

EngineNext ==
  \/ \E c \in 1..MaxCommands, kind \in EngineKinds, model_path \in ModelPaths,
        loads \in BOOLEAN : transcribe_audio_get_or_load(c, kind, model_path, loads)
  \/ \E c \in 1..MaxCommands : transcribe_audio_run(c)
  \/ unload_model
  \/ unload_if_idle_elapsed
  \/ unload_if_idle_unload
  \/ idle_time_passes

EngineSpec == EngineInit /\ [][EngineNext]_vars

\* C38: a command that got the slot from get_or_load_whisper(p) (or from
\* get_or_load_parakeet(p)) then runs on an engine of that kind loaded from p,
\* whatever other calls ran between the return and the command's lock.
C38_RunsOnRequestedEngine ==
  model_manager_did.call = "transcribe"
    => model_manager_did.ran_on = SomeEngine(model_manager_did.kind, model_manager_did.path)

\* C39: the slot holds an engine exactly when current_model_path is set, the
\* path is then the one the engine was loaded from, and the engine's kind is
\* the kind last requested.
C39_SlotAndPathTogether ==
  /\ engine.is_some <=> current_model_path.is_some
  /\ engine.is_some => /\ current_model_path.path = engine.path
                       /\ engine.kind = model_manager_did.requested

\* The low 32 bits of a size kept as <<high, low>>.
Low32(size) == <<size[1] % 65536, size[2]>>
WriteMethods == {"write_samples_f32", "write_samples_i16", "write_samples_u16"}

====
